---- MODULE Spec2Model ----
(***************************************************************************)
(* Model of the notifier plugin's event handler (src/src/plugin.ts,        *)
(* createNotifierPlugin): the debounce state shared by all invocations of  *)
(* the async `event` handler, the suspension points of one invocation      *)
(* (session lookup, toast, the 150 ms idle delay, the dispatch join) and   *)
(* the notification/sound requests each invocation makes; and the          *)
(* configuration loader the plugin calls when it is created without a      *)
(* configuration (src/src/config.ts, loadConfig).                          *)
(* Its collaborators are modelled each under a specification of its own:   *)
(* the Linux sound players of playOnLinux (SpecSound), the debounce of     *)
(* sendNotification (SpecNotify), and the per-session idle scheduler of    *)
(* src/src/index.ts (SpecScheduler, SpecTwoSessions).                      *)
(*                                                                         *)
(* Time is in milliseconds.  `now` is what timeProvider.now() returns; the *)
(* timer of setTimeout(resolve, 150) may fire at any time at or after its  *)
(* due time.  One step of the model is one run of handler code between two *)
(* awaits (JavaScript runs it without interleaving).  lastIdleTime, which  *)
(* the handler writes (line 187) and never reads, is left out.             *)
(***************************************************************************)
EXTENDS Integers, FiniteSets, Sequences, TLC

\* ---------------------------------------------------------------- bounds
MaxHandlers == 2       \* handler invocations that may overlap
MaxTime == 300         \* the clock stops advancing here
TickMs == 75           \* granularity of the clock

\* ------------------------------------------------------ program constants
RACE_CONDITION_DEBOUNCE_MS == 150
IDLE_DELAY_MS == 150
NEVER == -1
DEBOUNCE_MS == 1000
IDLE_COMPLETE_DELAY_MS == 350
CLEANUP_INTERVAL_MS == 300000

DefaultTitle == "OpenCode"
NoSession == "undefined"
NoHandle == 0

Handlers == 1..MaxHandlers

\* Session ids an event may carry.
Sessions == {"ses_1"}

\* What client.session.get may resolve to for a session id (`data`): an
\* untitled top-level session, or a titled sub-session of another session.
SessionData ==
    { [title |-> "", parentID |-> NoSession],
      [title |-> "Sub task", parentID |-> "ses_0"] }

\* The inbound events the host may deliver.  status is properties.status.type
\* ("none": no status) and sessionID is properties.sessionID.
EventTypes == {"permission.updated", "permission.asked", "session.status", "session.error"}

Events ==
    { e \in [type : EventTypes, status : {"idle", "busy", "none"},
             sessionID : Sessions \cup {NoSession}] :
        (e.type = "session.status") <=> (e.status # "none") }

\* A session.created event: it describes its session in properties.info and has
\* no properties.sessionID.
SessionInfoEvents ==
    { [type |-> "session.created", status |-> "none", sessionID |-> NoSession,
       info |-> [id |-> s, title |-> "Cached Title"]] : s \in Sessions }

\* The events of a host that also delivers session.created, a session.status
\* without status, and a type the handler has no branch for (message.updated).
HostEvents ==
    SessionInfoEvents
    \cup { e \in [type : {"session.status", "session.error", "message.updated"},
                  status : {"idle", "busy", "none"},
                  sessionID : Sessions \cup {NoSession}] :
             e.type # "session.status" => e.status = "none" }

Decisions == {"permission", "complete", "error", "subagent"}

\* The configuration the plugin is created with: which dispatchers are enabled
\* per event type (the configuration of the debounce tests: sub-agent
\* completions are silent, every other decision notifies and plays a sound).
AllOn == [sound |-> TRUE, notification |-> TRUE]
AllOff == [sound |-> FALSE, notification |-> FALSE]

Configs ==
    { [events |-> [permission |-> AllOn, complete |-> AllOn, error |-> AllOn, subagent |-> AllOff]] }

\* Configurations with one dispatcher enabled for every event type, next to
\* the one of Configs.
SoundOnly == [sound |-> TRUE, notification |-> FALSE]
NotificationOnly == [sound |-> FALSE, notification |-> TRUE]

DispatchConfigs ==
    Configs \cup { [events |-> [d \in Decisions |-> toggles]] :
                     toggles \in {SoundOnly, NotificationOnly} }

\* Configurations in which every event type meets every setting of its two
\* toggles: sound without notification, notification without sound, neither
\* (the configuration of Configs has both).
ToggleConfigs ==
    Configs
    \cup { [events |-> [permission |-> SoundOnly, complete |-> NotificationOnly,
                        error |-> AllOff, subagent |-> AllOn]],
           [events |-> [permission |-> AllOff, complete |-> SoundOnly,
                        error |-> NotificationOnly, subagent |-> AllOn]],
           [events |-> [permission |-> NotificationOnly, complete |-> AllOff,
                        error |-> SoundOnly, subagent |-> AllOn]] }

\* ------------------------------------------------- the configuration file

\* A JSON boolean that may be missing: "true", "false" or "undefined".
Toggles == {"true", "false", "undefined"}

\* The setting of one event type in the file: missing, a boolean (held in
\* sound and notification alike), or an object whose fields may be missing.
NoUserEvent == [kind |-> "undefined", sound |-> "undefined", notification |-> "undefined"]

UserEvents ==
    { NoUserEvent }
    \cup { [kind |-> "boolean", sound |-> b, notification |-> b] : b \in {"true", "false"} }
    \cup [kind : {"object"}, sound : Toggles, notification : Toggles]

\* The timeouts a file may give: 0, 10, or none (or one that is not a positive
\* number, which is read as none), written NoTimeout.
NoTimeout == 0 - 1
Timeouts == {NoTimeout, 0, 10}

\* The objects JSON.parse may return: the global toggles, the timeout, the
\* settings under `events`, and the setting of permission at the top level of
\* the file (read when events.permission is missing).
UserConfigs ==
    [sound : Toggles, notification : Toggles, timeout : Timeouts,
     events : [permission : UserEvents, complete : UserEvents,
               error : { u \in UserEvents : u.kind # "object" \/ u.notification = "undefined" }],
     permission : { u \in UserEvents : u.kind # "object" }]

\* The file at getConfigPath(): missing, not parsable as JSON, the JSON value
\* null, or a JSON object.
NoFile == [kind |-> "absent"]

ConfigFiles ==
    { NoFile, [kind |-> "unparsable"], [kind |-> "null"] }
    \cup { [kind |-> "object", userConfig |-> u] : u \in UserConfigs }

\* pluginConfig before loadConfig has returned.
NoConfig == [loaded |-> FALSE]

DEFAULT_EVENT_CONFIG == [sound |-> FALSE, notification |-> TRUE]

\* DEFAULT_CONFIG (its messages and sounds are left out).
DEFAULT_CONFIG ==
    [sound |-> FALSE, notification |-> TRUE, timeout |-> 5,
     events |-> [permission |-> DEFAULT_EVENT_CONFIG, complete |-> DEFAULT_EVENT_CONFIG,
                 error |-> DEFAULT_EVENT_CONFIG]]

\* `value ?? fallback` for a boolean that may be missing.
Coalesce(value, fallback) == IF value = "undefined" THEN fallback ELSE value = "true"

\* `first ?? second` for the setting of an event type.
CoalesceEvent(first, second) == IF first.kind = "undefined" THEN second ELSE first

\* Mutant: a field missing from an object setting is off.
parseEventConfigMissingOff(userEvent, defaultConfig) ==
    IF userEvent.kind = "undefined" THEN defaultConfig
    ELSE [sound |-> userEvent.sound = "true", notification |-> userEvent.notification = "true"]

parseEventConfig(userEvent, defaultConfig) ==
    IF userEvent.kind = "undefined" THEN defaultConfig
    ELSE IF userEvent.kind = "boolean"
    THEN [sound |-> userEvent.sound = "true", notification |-> userEvent.notification = "true"]
    ELSE [sound |-> Coalesce(userEvent.sound, defaultConfig.sound),
          notification |-> Coalesce(userEvent.notification, defaultConfig.notification)]

\* How the try block of loadConfig ends for a file that exists: JSON.parse
\* throws on text that is not JSON, and reading a property of null throws.
ReadAndParse(file) ==
    IF file.kind \in {"unparsable", "null"} THEN "rejected" ELSE "fulfilled"

\* The object the try block returns (lines 95-125) for the parsed userConfig.
Resolved(userConfig) ==
    LET globalSound == Coalesce(userConfig.sound, DEFAULT_CONFIG.sound)
        globalNotification == Coalesce(userConfig.notification, DEFAULT_CONFIG.notification)
        defaultWithGlobal == [sound |-> globalSound, notification |-> globalNotification]
    IN  [sound |-> globalSound,
         notification |-> globalNotification,
         timeout |-> IF userConfig.timeout # NoTimeout /\ userConfig.timeout > 0
                     THEN userConfig.timeout ELSE DEFAULT_CONFIG.timeout,
         events |->
            [permission |-> parseEventConfig(
                                CoalesceEvent(userConfig.events.permission, userConfig.permission),
                                defaultWithGlobal),
             complete |-> parseEventConfig(userConfig.events.complete, defaultWithGlobal),
             error |-> parseEventConfig(userConfig.events.error, defaultWithGlobal)]]

\* pluginInput: absent, or a client with or without a tui.
PluginInputs == {"none", "client", "client+tui"}

VARIABLES
    now,                        \* timeProvider.now()
    lastErrorTime,
    lastIdleNotificationTime,
    pendingIdleNotification,    \* the handler whose cancel closure is stored, or NoHandle
    inv,                        \* the handler invocations in flight
    pluginConfig,
    pluginInput,
    configFile,                 \* the configuration file as loadConfig finds it
    player,                     \* one call of playOnLinux: the players spawned so far
    lastNotificationTime,       \* notify.ts: message -> time of the last delivery
    pendingIdleTimers,          \* index.ts: sessionID -> the timer of its scheduled idle
    sessionIdleSequence,        \* index.ts: sessionID -> sequence number
    sessionErrorSuppressionAt,  \* index.ts: sessionID -> time of the error mark
    sessionLastBusyAt,          \* index.ts: sessionID -> time of the last busy event
    processing,                 \* index.ts: processSessionIdle calls awaiting isChildSession
    nextCleanupAt,              \* index.ts: when the cleanup interval fires next
    last,                       \* what the last step did: event arbitrated, log action, decision
    lastCompletionEmitAt,       \* history: when handleEvent was last called for complete/subagent
    lastErrorEmitAt             \* history: when handleEvent was last called for error

vars == <<now, lastErrorTime, lastIdleNotificationTime,
          pendingIdleNotification, inv, pluginConfig, pluginInput, configFile,
          player, lastNotificationTime, pendingIdleTimers, sessionIdleSequence,
          sessionErrorSuppressionAt, sessionLastBusyAt, processing, nextCleanupAt,
          last, lastCompletionEmitAt, lastErrorEmitAt>>

arbiter == <<lastErrorTime, lastIdleNotificationTime, pendingIdleNotification>>

\* The module state of index.ts: its four maps, its calls in flight, its interval.
scheduler == <<pendingIdleTimers, sessionIdleSequence, sessionErrorSuppressionAt,
               sessionLastBusyAt, processing, nextCleanupAt>>

\* The state of the collaborators of the plugin and of the per-session scheduler.
components == <<player, lastNotificationTime, scheduler>>

\* `new Map()`, `{}`: a map without keys.
EmptyMap == [key \in {} |-> 0]

\* playOnLinux has not been called.
NoCall == [pc |-> "none", exits |-> EmptyMap, index |-> 0, spawned |-> <<>>]

\* sound.ts, notify.ts and index.ts as their modules are loaded.
NoComponents ==
    /\ player = NoCall
    /\ lastNotificationTime = EmptyMap
    /\ pendingIdleTimers = EmptyMap
    /\ sessionIdleSequence = EmptyMap
    /\ sessionErrorSuppressionAt = EmptyMap
    /\ sessionLastBusyAt = EmptyMap
    /\ processing = {}
    /\ nextCleanupAt = CLEANUP_INTERVAL_MS

\* ------------------------------------------------------------ helpers

\* One invocation of the handler: where it is suspended (pc), the locals its
\* continuation reads, and the promises of handleEvent that have not settled
\* yet (pending).  errSeen is history: whether an error was arbitrated
\* while this invocation was suspended in its delay, before the timer was due
\* ("inDelay") or only after it was due and before the handler resumed
\* ("overdue").
Free ==
    [pc |-> "free", type |-> "none", status |-> "none", sessionID |-> NoSession,
     sessionTitle |-> DefaultTitle, eventType |-> "none",
     cancelled |-> FALSE, due |-> 0, errSeen |-> "no", pending |-> {}]

IdleEvent == [type |-> "session.status", status |-> "idle"]

Quiet ==
    [step |-> "none", type |-> "none", status |-> "none",
     log |-> "none", emit |-> "none", title |-> DefaultTitle]

isEventNotificationEnabled(config, eventType) == config.events[eventType].notification

\* Mutant: the sound is played only for an event that also notifies.
isEventSoundEnabledWithNotification(config, eventType) ==
    config.events[eventType].sound /\ config.events[eventType].notification

isEventSoundEnabled(config, eventType) == config.events[eventType].sound

\* The promises handleEvent pushes before Promise.allSettled.
Promises(config, eventType) ==
    (IF isEventNotificationEnabled(config, eventType) THEN {"sendNotification"} ELSE {})
    \cup (IF isEventSoundEnabled(config, eventType) THEN {"playSound"} ELSE {})

\* Mutants of the idle rule: the window closed at its end; the rule absent.
SkipIdleAfterErrorInclusive(at, errorTime) ==
    errorTime >= 0 /\ at - errorTime <= RACE_CONDITION_DEBOUNCE_MS

SkipIdleAfterErrorAbsent(at, errorTime) == FALSE

\* Idle rule: `lastErrorTime >= 0 && now - lastErrorTime < RACE_CONDITION_DEBOUNCE_MS`
SkipIdleAfterError(at, errorTime) ==
    errorTime >= 0 /\ at - errorTime < RACE_CONDITION_DEBOUNCE_MS

\* Mutant of the re-check: any earlier error, however old, suppresses.
ErrorDuringDelayAnyError(afterDelay, errorTime) == errorTime >= 0

\* Re-check after the delay: `lastErrorTime >= 0 && afterDelay - lastErrorTime < ...`
ErrorDuringDelay(afterDelay, errorTime) ==
    errorTime >= 0 /\ afterDelay - errorTime < RACE_CONDITION_DEBOUNCE_MS

\* Mutant of the error rule: the `>= 0` guard forgotten.
SkipErrorAfterIdleNotificationUnguarded(at, idleNotificationTime) ==
    at - idleNotificationTime < RACE_CONDITION_DEBOUNCE_MS

\* Error rule: `lastIdleNotificationTime >= 0 && now - lastIdleNotificationTime < ...`
SkipErrorAfterIdleNotification(at, idleNotificationTime) ==
    idleNotificationTime >= 0 /\ at - idleNotificationTime < RACE_CONDITION_DEBOUNCE_MS

\* Mutant of the cancellation: the handle is cleared without being invoked.
CancelledNever(handle, q, was) == was

\* The closure `() => { cancelled = true }` of handler q, stored in
\* pendingIdleNotification and invoked by an error: `was` is q's flag before.
Cancelled(handle, q, was) == was \/ q = handle

\* Mutant: the parent is not looked at.
IdleEventTypeComplete(parentID) == "complete"

\* `let eventType = "complete"; if (parentID) eventType = "subagent"`
IdleEventType(parentID) == IF parentID # NoSession THEN "subagent" ELSE "complete"

\* Mutant: the permission event of the other host version.
IsPermissionAsked(type) == type = "permission.asked"

\* `event.type === "permission.updated"`
IsPermissionEvent(type) == type = "permission.updated"

\* Mutant: the status type is not looked at.
IsAnyStatus(type, status) == type = "session.status"

\* `event.type === "session.status"` and `status?.type === "idle"`
IsIdleStatus(type, status) == type = "session.status" /\ status = "idle"

\* Mutant: every type without a branch of its own is taken for an error.
IsErrorOrOther(type) == type \notin {"permission.updated", "session.status"}

\* `event.type === "session.error"`
IsErrorEvent(type) == type = "session.error"

\* How a promise of a collaborator settles.
Outcomes == {"fulfilled", "rejected"}

\* Mutant: no try/catch around the lookup.
TryOnly(outcome) == outcome

\* `try { await client.session.get(...) } catch (error) { ... }`: a rejection
\* enters the catch block.
TryCatch(outcome) == IF outcome = "rejected" THEN "caught" ELSE outcome

\* Mutant: no rejection handler on the toast.
CatchNone(outcome) == outcome

\* `showToast(...).catch(() => {})`: the promise awaited is fulfilled whatever
\* the outcome of showToast.
CatchAll(outcome) == "fulfilled"

\* Mutant: no lookup is made while the failure of an earlier one is being handled.
NeedsLookupUnlessFailed(e) ==
    /\ e.sessionID # NoSession
    /\ pluginInput # "none"
    /\ \A q \in DOMAIN inv : inv[q].pc # "toast"

\* Mutant: the lookup does not depend on pluginInput.
NeedsLookupWithId(e) == e.sessionID # NoSession

\* Mutant: the join of Promise.all, which rejects with the first rejection.
PromiseAll(outcome, pending) ==
    IF outcome = "rejected" THEN "rejected"
    ELSE IF pending = {} THEN "fulfilled" ELSE "pending"

\* `await Promise.allSettled(promises)` when one of the promises settles with
\* `outcome` and `pending` are those still unsettled: the join is fulfilled once
\* nothing is pending, and never rejects.
AllSettled(outcome, pending) == IF pending = {} THEN "fulfilled" ELSE "pending"

\* `if (sessionID) { if (pluginInput) { await session.get ...`
NeedsLookup(e) == e.sessionID # NoSession /\ pluginInput # "none"

Init ==
    /\ now = 0
    /\ lastErrorTime = NEVER
    /\ lastIdleNotificationTime = NEVER
    /\ pendingIdleNotification = NoHandle
    /\ inv = [p \in Handlers |-> Free]
    /\ pluginConfig \in Configs
    /\ pluginInput \in PluginInputs
    /\ configFile = NoFile
    /\ NoComponents
    /\ last = Quiet
    /\ lastCompletionEmitAt = NEVER
    /\ lastErrorEmitAt = NEVER

\* What one step reports: the event it arbitrated, the rule it logged and the
\* decision handed to handleEvent ("none" when no decision was made).
Step(step, e, log, emit, title) ==
    [step |-> step, type |-> e.type, status |-> e.status,
     log |-> log, emit |-> emit,
     title |-> IF emit = "none" THEN DefaultTitle ELSE title]

\* The invocation after `await handleEvent(...)` has called the dispatchers:
\* suspended on Promise.allSettled, unless no dispatcher is enabled (the join
\* of no promises resumes without yielding to another event or timer).
Dispatching(eventType) ==
    [Free EXCEPT !.pc = "dispatch", !.eventType = eventType,
                 !.pending = Promises(pluginConfig, eventType)]

AfterHandleEvent(eventType) ==
    IF Promises(pluginConfig, eventType) = {} THEN Free ELSE Dispatching(eventType)

\* An error was arbitrated: every handler suspended in its delay has seen it,
\* and the one whose closure is stored (if any) is cancelled.
ErrorSeen(p, handle, own) ==
    [q \in Handlers |->
        IF q = p THEN own
        ELSE IF inv[q].pc = "delay"
             THEN [inv[q] EXCEPT !.cancelled = Cancelled(handle, q, @),
                                 !.errSeen = IF now < inv[q].due THEN "inDelay"
                                             ELSE IF @ = "no" THEN "overdue" ELSE @]
             ELSE inv[q]]

\* `if (event.type === "permission.updated") await handleEvent(config, "permission", title)`
OnPermission(p, e, title) ==
    /\ last' = Step("arbitrated", e, "none", "permission", title)
    /\ inv' = [inv EXCEPT ![p] = AfterHandleEvent("permission")]
    /\ UNCHANGED <<lastErrorTime, lastIdleNotificationTime,
                   pendingIdleNotification, lastCompletionEmitAt, lastErrorEmitAt>>

\* session.status with status idle, up to `await new Promise(r => setTimeout(r, 150))`
OnIdle(p, e, title, parentID) ==
    IF SkipIdleAfterError(now, lastErrorTime)
    THEN /\ last' = Step("arbitrated", e, "skipIdleAfterError", "none", title)
         /\ inv' = [inv EXCEPT ![p] = Free]
         /\ UNCHANGED <<lastErrorTime, lastIdleNotificationTime,
                        pendingIdleNotification, lastCompletionEmitAt, lastErrorEmitAt>>
    ELSE /\ pendingIdleNotification' = p
         /\ inv' = [inv EXCEPT ![p] =
                [Free EXCEPT !.pc = "delay", !.sessionTitle = title,
                             !.eventType = IdleEventType(parentID),
                             !.cancelled = FALSE, !.due = now + IDLE_DELAY_MS]]
         /\ last' = Step("arbitrated", e, "none", "none", title)
         /\ UNCHANGED <<lastErrorTime, lastIdleNotificationTime, lastCompletionEmitAt, lastErrorEmitAt>>

\* Mutant: the error invokes the stored handle and leaves it stored.
OnErrorKeepsHandle(p, e, title) ==
    IF pendingIdleNotification # NoHandle
    THEN /\ inv' = ErrorSeen(p, pendingIdleNotification, Free)
         /\ last' = Step("arbitrated", e, "cancelPendingIdle", "none", title)
         /\ UNCHANGED <<lastErrorTime, lastIdleNotificationTime, pendingIdleNotification,
                        lastCompletionEmitAt, lastErrorEmitAt>>
    ELSE IF SkipErrorAfterIdleNotification(now, lastIdleNotificationTime)
    THEN /\ inv' = ErrorSeen(p, NoHandle, Free)
         /\ last' = Step("arbitrated", e, "skipErrorAfterIdleNotification", "none", title)
         /\ UNCHANGED <<lastErrorTime, lastIdleNotificationTime,
                        pendingIdleNotification, lastCompletionEmitAt, lastErrorEmitAt>>
    ELSE /\ lastErrorTime' = now
         /\ inv' = ErrorSeen(p, NoHandle, AfterHandleEvent("error"))
         /\ last' = Step("arbitrated", e, "none", "error", title)
         /\ lastErrorEmitAt' = now
         /\ UNCHANGED <<lastIdleNotificationTime,
                        pendingIdleNotification, lastCompletionEmitAt>>

\* Mutant: the stored handle is per session; an error that carries a session
\* id finds no handle of its own session and goes on to the error rules.
OnErrorOwnSession(p, e, title) ==
    IF pendingIdleNotification # NoHandle /\ e.sessionID = NoSession
    THEN /\ inv' = ErrorSeen(p, pendingIdleNotification, Free)
         /\ pendingIdleNotification' = NoHandle
         /\ last' = Step("arbitrated", e, "cancelPendingIdle", "none", title)
         /\ UNCHANGED <<lastErrorTime, lastIdleNotificationTime,
                        lastCompletionEmitAt, lastErrorEmitAt>>
    ELSE IF SkipErrorAfterIdleNotification(now, lastIdleNotificationTime)
    THEN /\ inv' = ErrorSeen(p, NoHandle, Free)
         /\ last' = Step("arbitrated", e, "skipErrorAfterIdleNotification", "none", title)
         /\ UNCHANGED <<lastErrorTime, lastIdleNotificationTime,
                        pendingIdleNotification, lastCompletionEmitAt, lastErrorEmitAt>>
    ELSE /\ lastErrorTime' = now
         /\ inv' = ErrorSeen(p, NoHandle, AfterHandleEvent("error"))
         /\ last' = Step("arbitrated", e, "none", "error", title)
         /\ lastErrorEmitAt' = now
         /\ UNCHANGED <<lastIdleNotificationTime,
                        pendingIdleNotification, lastCompletionEmitAt>>

\* session.error
OnError(p, e, title) ==
    IF pendingIdleNotification # NoHandle
    THEN /\ inv' = ErrorSeen(p, pendingIdleNotification, Free)
         /\ pendingIdleNotification' = NoHandle
         /\ last' = Step("arbitrated", e, "cancelPendingIdle", "none", title)
         /\ UNCHANGED <<lastErrorTime, lastIdleNotificationTime,
                        lastCompletionEmitAt, lastErrorEmitAt>>
    ELSE IF SkipErrorAfterIdleNotification(now, lastIdleNotificationTime)
    THEN /\ inv' = ErrorSeen(p, NoHandle, Free)
         /\ last' = Step("arbitrated", e, "skipErrorAfterIdleNotification", "none", title)
         /\ UNCHANGED <<lastErrorTime, lastIdleNotificationTime,
                        pendingIdleNotification, lastCompletionEmitAt, lastErrorEmitAt>>
    ELSE /\ lastErrorTime' = now
         /\ inv' = ErrorSeen(p, NoHandle, AfterHandleEvent("error"))
         /\ last' = Step("arbitrated", e, "none", "error", title)
         /\ lastErrorEmitAt' = now
         /\ UNCHANGED <<lastIdleNotificationTime,
                        pendingIdleNotification, lastCompletionEmitAt>>

\* Any other event: busy status, a status without type, an unhandled type.
OnOther(p, e, title) ==
    /\ last' = Step("arbitrated", e, "none", "none", title)
    /\ inv' = [inv EXCEPT ![p] = Free]
    /\ UNCHANGED <<lastErrorTime, lastIdleNotificationTime,
                   pendingIdleNotification, lastCompletionEmitAt, lastErrorEmitAt>>

\* An awaited promise rejected outside any try/catch: the promise the handler
\* returned to the host rejects, and the rest of the handler does not run.
Escapes(p) ==
    /\ inv' = [inv EXCEPT ![p] = Free]
    /\ last' = Step("threw", inv[p], "none", "none", DefaultTitle)
    /\ UNCHANGED <<lastErrorTime, lastIdleNotificationTime,
                   pendingIdleNotification, lastCompletionEmitAt, lastErrorEmitAt>>

\* The handler body after the session title is determined (lines 150-251).
Arbitrate(p, e, title, parentID) ==
    CASE IsPermissionEvent(e.type) -> OnPermission(p, e, title)
      [] IsIdleStatus(e.type, e.status) -> OnIdle(p, e, title, parentID)
      [] IsErrorEvent(e.type) -> OnError(p, e, title)
      [] OTHER -> OnOther(p, e, title)

EventOf(p) == [type |-> inv[p].type, status |-> inv[p].status, sessionID |-> inv[p].sessionID]

FirstFree == CHOOSE p \in Handlers : inv[p].pc = "free" /\ \A q \in Handlers : inv[q].pc = "free" => p <= q

\* The host calls event({event}) with event e: the handler runs to its first await.
ReceiveEvent(p, e) ==
    /\ \E q \in Handlers : inv[q].pc = "free"
    /\ p = FirstFree
    /\ IF NeedsLookup(e)
       THEN /\ inv' = [inv EXCEPT ![p] =
                   [Free EXCEPT !.pc = "lookup", !.type = e.type, !.status = e.status,
                                !.sessionID = e.sessionID]]
            /\ last' = Quiet
            /\ UNCHANGED <<lastErrorTime, lastIdleNotificationTime,
                           pendingIdleNotification, lastCompletionEmitAt, lastErrorEmitAt>>
       ELSE Arbitrate(p, e, DefaultTitle, NoSession)
    /\ UNCHANGED <<now, pluginConfig, pluginInput, configFile, components>>

Receive(p) == \E e \in Events : ReceiveEvent(p, e)

\* Mutant: the title of the session is taken as it is.
TitleAsIs(session) == session.title

\* `sessionTitle = session.title || "OpenCode"`
TitleOf(session) == IF session.title # "" THEN session.title ELSE DefaultTitle

\* client.session.get resolves with `data` a session: `if (session) { ... }`
SessionFound(p, session) ==
    /\ inv[p].pc = "lookup"
    /\ Arbitrate(p, EventOf(p), TitleOf(session), session.parentID)
    /\ UNCHANGED <<now, pluginConfig, pluginInput, configFile, components>>

\* client.session.get resolves without data: title and parent keep their defaults.
SessionNotFound(p) ==
    /\ inv[p].pc = "lookup"
    /\ Arbitrate(p, EventOf(p), DefaultTitle, NoSession)
    /\ UNCHANGED <<now, pluginConfig, pluginInput, configFile, components>>

\* client.session.get resolves, with the session or with no data.
SessionGetResolves(p) ==
    \/ \E session \in SessionData : SessionFound(p, session)
    \/ SessionNotFound(p)

\* client.session.get rejects: the catch logs, and shows a toast when there is a tui.
SessionGetRejects(p) ==
    /\ inv[p].pc = "lookup"
    /\ IF TryCatch("rejected") # "caught"
       THEN Escapes(p)
       ELSE IF pluginInput = "client+tui"
       THEN /\ inv' = [inv EXCEPT ![p].pc = "toast"]
            /\ last' = Quiet
            /\ UNCHANGED <<lastErrorTime, lastIdleNotificationTime,
                           pendingIdleNotification, lastCompletionEmitAt, lastErrorEmitAt>>
       ELSE Arbitrate(p, EventOf(p), DefaultTitle, NoSession)
    /\ UNCHANGED <<now, pluginConfig, pluginInput, configFile, components>>

\* showToast(...) settles with this outcome; the handler awaits it behind
\* `.catch(() => {})` inside the catch block of the lookup.
ToastSettled(p, outcome) ==
    /\ inv[p].pc = "toast"
    /\ IF CatchAll(outcome) = "rejected"
       THEN Escapes(p)
       ELSE Arbitrate(p, EventOf(p), DefaultTitle, NoSession)
    /\ UNCHANGED <<now, pluginConfig, pluginInput, configFile, components>>

ToastSettles(p) == \E outcome \in Outcomes : ToastSettled(p, outcome)

\* Mutant: the handle is not cleared before the decision is emitted.
IdleResumeKeepsHandle(p) ==
    /\ inv[p].pc = "delay"
    /\ now >= inv[p].due
    /\ pendingIdleNotification' =
          IF ~inv[p].cancelled /\ ~ErrorDuringDelay(now, lastErrorTime)
          THEN pendingIdleNotification ELSE NoHandle
    /\ IF inv[p].cancelled
       THEN /\ inv' = [inv EXCEPT ![p] = Free]
            /\ last' = Step("resumed", IdleEvent, "cancelled", "none", inv[p].sessionTitle)
            /\ UNCHANGED <<lastIdleNotificationTime, lastCompletionEmitAt, lastErrorEmitAt>>
       ELSE IF ErrorDuringDelay(now, lastErrorTime)
       THEN /\ inv' = [inv EXCEPT ![p] = Free]
            /\ last' = Step("resumed", IdleEvent, "skipIdleAfterError", "none",
                            inv[p].sessionTitle)
            /\ UNCHANGED <<lastIdleNotificationTime, lastCompletionEmitAt, lastErrorEmitAt>>
       ELSE /\ inv' = [inv EXCEPT ![p] = AfterHandleEvent(inv[p].eventType)]
            /\ last' = Step("resumed", IdleEvent, "none", inv[p].eventType,
                            inv[p].sessionTitle)
            /\ lastCompletionEmitAt' = now
            /\ lastIdleNotificationTime' =
                  IF Promises(pluginConfig, inv[p].eventType) = {}
                  THEN now ELSE lastIdleNotificationTime
    /\ UNCHANGED <<now, lastErrorTime, pluginConfig, pluginInput, configFile, components, lastErrorEmitAt>>

\* The 150 ms timer of handler p fires and the idle path resumes (lines 197-219,
\* up to the await inside handleEvent).
IdleResume(p) ==
    /\ inv[p].pc = "delay"
    /\ now >= inv[p].due
    /\ pendingIdleNotification' = NoHandle
    /\ IF inv[p].cancelled
       THEN /\ inv' = [inv EXCEPT ![p] = Free]
            /\ last' = Step("resumed", IdleEvent, "cancelled", "none", inv[p].sessionTitle)
            /\ UNCHANGED <<lastIdleNotificationTime, lastCompletionEmitAt, lastErrorEmitAt>>
       ELSE IF ErrorDuringDelay(now, lastErrorTime)
       THEN /\ inv' = [inv EXCEPT ![p] = Free]
            /\ last' = Step("resumed", IdleEvent, "skipIdleAfterError", "none",
                            inv[p].sessionTitle)
            /\ UNCHANGED <<lastIdleNotificationTime, lastCompletionEmitAt, lastErrorEmitAt>>
       ELSE /\ inv' = [inv EXCEPT ![p] = AfterHandleEvent(inv[p].eventType)]
            /\ last' = Step("resumed", IdleEvent, "none", inv[p].eventType,
                            inv[p].sessionTitle)
            /\ lastCompletionEmitAt' = now
            /\ lastIdleNotificationTime' =
                  IF Promises(pluginConfig, inv[p].eventType) = {}
                  THEN now ELSE lastIdleNotificationTime
    /\ UNCHANGED <<now, lastErrorTime, pluginConfig, pluginInput, configFile, components, lastErrorEmitAt>>

\* Mutant: when the last dispatcher promise is rejected the handler calls
\* handleEvent once more.
JoinedRetries(p, outcome, pending) ==
    IF outcome = "rejected" /\ pending = {}
    THEN /\ inv' = [inv EXCEPT ![p] = Dispatching(inv[p].eventType)]
         /\ last' = [Quiet EXCEPT !.step = "resumed", !.emit = inv[p].eventType]
         /\ UNCHANGED <<lastErrorTime, lastIdleNotificationTime,
                        pendingIdleNotification, lastCompletionEmitAt, lastErrorEmitAt>>
    ELSE IF pending # {}
    THEN /\ inv' = [inv EXCEPT ![p].pending = pending]
         /\ last' = Quiet
         /\ UNCHANGED <<lastErrorTime, lastIdleNotificationTime,
                        pendingIdleNotification, lastCompletionEmitAt, lastErrorEmitAt>>
    ELSE /\ inv' = [inv EXCEPT ![p] = Free]
         /\ lastIdleNotificationTime' =
               IF inv[p].eventType \in {"complete", "subagent"} THEN now
               ELSE lastIdleNotificationTime
         /\ last' = Quiet
         /\ UNCHANGED <<lastErrorTime, pendingIdleNotification,
                        lastCompletionEmitAt, lastErrorEmitAt>>

\* The handler awaiting `Promise.allSettled(promises)` when a promise settles
\* and `pending` are left: it stays suspended, or the join is fulfilled and the
\* handler runs to its end (on the idle path that is
\* `lastIdleNotificationTime = timeProvider.now()`), or the join rejects.
Joined(p, outcome, pending) ==
    CASE AllSettled(outcome, pending) = "pending" ->
            /\ inv' = [inv EXCEPT ![p].pending = pending]
            /\ last' = Quiet
            /\ UNCHANGED <<lastErrorTime, lastIdleNotificationTime,
                           pendingIdleNotification, lastCompletionEmitAt, lastErrorEmitAt>>
      [] AllSettled(outcome, pending) = "fulfilled" ->
            /\ inv' = [inv EXCEPT ![p] = Free]
            /\ lastIdleNotificationTime' =
                  IF inv[p].eventType \in {"complete", "subagent"} THEN now
                  ELSE lastIdleNotificationTime
            /\ last' = Quiet
            /\ UNCHANGED <<lastErrorTime, pendingIdleNotification,
                           lastCompletionEmitAt, lastErrorEmitAt>>
      [] OTHER -> Escapes(p)

\* The promises of sendNotification and playSound have all settled, the last
\* of them with `outcome`.
DispatchSettled(p) ==
    /\ inv[p].pc = "dispatch"
    /\ \E outcome \in Outcomes : Joined(p, outcome, {})
    /\ UNCHANGED <<now, pluginConfig, pluginInput, configFile, components>>

\* Time passes.
Tick ==
    /\ now + TickMs <= MaxTime
    /\ now' = now + TickMs
    /\ last' = Quiet
    /\ UNCHANGED <<lastErrorTime, lastIdleNotificationTime,
                   pendingIdleNotification, inv, pluginConfig, pluginInput,
                   configFile, components,
                   lastCompletionEmitAt, lastErrorEmitAt>>

Next ==
    \/ \E p \in Handlers : Receive(p)
    \/ \E p \in Handlers : SessionGetResolves(p)
    \/ \E p \in Handlers : SessionGetRejects(p)
    \/ \E p \in Handlers : ToastSettles(p)
    \/ \E p \in Handlers : IdleResume(p)
    \/ \E p \in Handlers : DispatchSettled(p)
    \/ Tick

Spec == Init /\ [][Next]_vars

\* The same handler under the host of HostEvents.
ReceiveFromHost(p) == \E e \in HostEvents : ReceiveEvent(p, e)

NextHost ==
    \/ \E p \in Handlers : ReceiveFromHost(p)
    \/ \E p \in Handlers : SessionGetResolves(p)
    \/ \E p \in Handlers : SessionGetRejects(p)
    \/ \E p \in Handlers : ToastSettles(p)
    \/ \E p \in Handlers : IdleResume(p)
    \/ \E p \in Handlers : DispatchSettled(p)
    \/ Tick

SpecHost == Init /\ [][NextHost]_vars

\* The handler with the settlement of each dispatcher promise as a step of its
\* own, under a host whose events carry no session id (no lookup is made).
PlainEvents == { e \in Events : e.sessionID = NoSession }

InitDispatch ==
    /\ now = 0
    /\ lastErrorTime = NEVER
    /\ lastIdleNotificationTime = NEVER
    /\ pendingIdleNotification = NoHandle
    /\ inv = [p \in Handlers |-> Free]
    /\ pluginConfig \in DispatchConfigs
    /\ pluginInput = "none"
    /\ configFile = NoFile
    /\ NoComponents
    /\ last = Quiet
    /\ lastCompletionEmitAt = NEVER
    /\ lastErrorEmitAt = NEVER

ReceivePlain(p) == \E e \in PlainEvents : ReceiveEvent(p, e)

\* The promise of dispatcher d (sendNotification or playSound) settles.
PromiseSettled(p, d, outcome) ==
    /\ inv[p].pc = "dispatch"
    /\ d \in inv[p].pending
    /\ Joined(p, outcome, inv[p].pending \ {d})
    /\ UNCHANGED <<now, pluginConfig, pluginInput, configFile, components>>

PromiseSettles(p) ==
    \E d \in inv[p].pending : \E outcome \in Outcomes : PromiseSettled(p, d, outcome)

NextDispatch ==
    \/ \E p \in Handlers : ReceivePlain(p)
    \/ \E p \in Handlers : IdleResume(p)
    \/ \E p \in Handlers : PromiseSettles(p)
    \/ Tick

SpecDispatch == InitDispatch /\ [][NextDispatch]_vars

\* The same steps under the configurations of ToggleConfigs.
InitToggles ==
    /\ now = 0
    /\ lastErrorTime = NEVER
    /\ lastIdleNotificationTime = NEVER
    /\ pendingIdleNotification = NoHandle
    /\ inv = [p \in Handlers |-> Free]
    /\ pluginConfig \in ToggleConfigs
    /\ pluginInput = "none"
    /\ configFile = NoFile
    /\ NoComponents
    /\ last = Quiet
    /\ lastCompletionEmitAt = NEVER
    /\ lastErrorEmitAt = NEVER

SpecToggles == InitToggles /\ [][NextDispatch]_vars

\* loadConfig(), as createNotifierPlugin calls it when no config is passed in.
\* A file that is missing gives DEFAULT_CONFIG; otherwise the try block runs,
\* and its catch gives DEFAULT_CONFIG.
LoadConfig ==
    /\ pluginConfig = NoConfig
    /\ IF configFile.kind = "absent"
       THEN pluginConfig' = DEFAULT_CONFIG /\ last' = [Quiet EXCEPT !.step = "loaded"]
       ELSE CASE TryCatch(ReadAndParse(configFile)) = "fulfilled" ->
                    /\ pluginConfig' = Resolved(configFile.userConfig)
                    /\ last' = [Quiet EXCEPT !.step = "loaded"]
              [] TryCatch(ReadAndParse(configFile)) = "caught" ->
                    /\ pluginConfig' = DEFAULT_CONFIG
                    /\ last' = [Quiet EXCEPT !.step = "loaded"]
              [] OTHER ->
                    /\ pluginConfig' = pluginConfig
                    /\ last' = [Quiet EXCEPT !.step = "threw"]
    /\ UNCHANGED <<now, lastErrorTime, lastIdleNotificationTime, pendingIdleNotification,
                   inv, pluginInput, configFile, components,
                   lastCompletionEmitAt, lastErrorEmitAt>>

\* The plugin created without a config, for every file of ConfigFiles.
InitConfig ==
    /\ now = 0
    /\ lastErrorTime = NEVER
    /\ lastIdleNotificationTime = NEVER
    /\ pendingIdleNotification = NoHandle
    /\ inv = [p \in Handlers |-> Free]
    /\ pluginConfig = NoConfig
    /\ pluginInput = "none"
    /\ configFile \in ConfigFiles
    /\ NoComponents
    /\ last = Quiet
    /\ lastCompletionEmitAt = NEVER
    /\ lastErrorEmitAt = NEVER

NextConfig == LoadConfig

SpecConfig == InitConfig /\ [][NextConfig]_vars

\* The handler with timers that fire: the clock advances as long as MaxTime
\* allows, and the timer of a handler suspended in its delay, once due, fires.
\* The host delivers the events of PlainEvents, and an idle event only while
\* the clock can still reach the time its timer is due.
ReceiveInTime(p) ==
    \E e \in PlainEvents :
        /\ IsIdleStatus(e.type, e.status) => now + IDLE_DELAY_MS <= MaxTime
        /\ ReceiveEvent(p, e)

NextLive ==
    \/ \E p \in Handlers : ReceiveInTime(p)
    \/ \E p \in Handlers : IdleResume(p)
    \/ \E p \in Handlers : DispatchSettled(p)
    \/ Tick

SpecLive ==
    /\ InitDispatch
    /\ [][NextLive]_vars
    /\ WF_vars(Tick)
    /\ \A p \in Handlers : WF_vars(IdleResume(p))

\* ------------------------------------------------------- sound players

\* The players of playOnLinux, in the order of its list.
Players == <<"paplay", "aplay", "mpv", "ffplay">>

\* What becomes of a spawned process: it cannot be started ("error" event), it
\* closes with code 0, with another code, or with no code (ended by a signal).
ProcOutcomes == {"error", "exit0", "exit1", "killed"}

\* Mutant: the promise of runCommand is fulfilled however the process ends.
runCommandAlwaysResolves(procOutcome) == "fulfilled"

\* runCommand: rejects on "error" and on a close code other than 0.
runCommand(procOutcome) == IF procOutcome = "exit0" THEN "fulfilled" ELSE "rejected"

\* playOnLinux(soundPath, volume), up to the first `await runCommand(...)`.
PlayOnLinux ==
    /\ player.pc = "idle"
    /\ player' = [player EXCEPT !.pc = "await", !.index = 1, !.spawned = <<Players[1]>>]
    /\ UNCHANGED <<now, arbiter, inv, pluginConfig, pluginInput, configFile, last,
                   lastCompletionEmitAt, lastErrorEmitAt, lastNotificationTime, scheduler>>

\* The process of the current player ends: `return` when runCommand is
\* fulfilled, `continue` with the next player of the list when it rejects.
RunCommandSettles ==
    /\ player.pc = "await"
    /\ CASE TryCatch(runCommand(player.exits[Players[player.index]])) = "fulfilled" ->
                player' = [player EXCEPT !.pc = "returned"]
         [] TryCatch(runCommand(player.exits[Players[player.index]])) = "caught" ->
                IF player.index < Len(Players)
                THEN player' = [player EXCEPT !.index = @ + 1,
                                              !.spawned = Append(@, Players[player.index + 1])]
                ELSE player' = [player EXCEPT !.pc = "returned"]
         [] OTHER -> player' = [player EXCEPT !.pc = "threw"]
    /\ UNCHANGED <<now, arbiter, inv, pluginConfig, pluginInput, configFile, last,
                   lastCompletionEmitAt, lastErrorEmitAt, lastNotificationTime, scheduler>>

\* A call of playOnLinux on a machine where each player ends in some way.
InitSound ==
    /\ now = 0
    /\ lastErrorTime = NEVER
    /\ lastIdleNotificationTime = NEVER
    /\ pendingIdleNotification = NoHandle
    /\ inv = [p \in Handlers |-> Free]
    /\ pluginConfig = NoConfig
    /\ pluginInput = "none"
    /\ configFile = NoFile
    /\ last = Quiet
    /\ lastCompletionEmitAt = NEVER
    /\ lastErrorEmitAt = NEVER
    /\ player \in { [pc |-> "idle", exits |-> exits, index |-> 0, spawned |-> <<>>] :
                      exits \in [{ Players[i] : i \in DOMAIN Players } -> ProcOutcomes] }
    /\ lastNotificationTime = EmptyMap
    /\ pendingIdleTimers = EmptyMap
    /\ sessionIdleSequence = EmptyMap
    /\ sessionErrorSuppressionAt = EmptyMap
    /\ sessionLastBusyAt = EmptyMap
    /\ processing = {}
    /\ nextCleanupAt = CLEANUP_INTERVAL_MS

NextSound == PlayOnLinux \/ RunCommandSettles

SpecSound == InitSound /\ [][NextSound]_vars

\* ------------------------------------------------------- two sessions

\* Two sessions of one arbiter.
SessionA == "ses_1"
SessionB == "ses_2"

\* A host that reports the idle status of session A and the errors of session B.
TwoSessionEvents ==
    { [type |-> "session.status", status |-> "idle", sessionID |-> SessionA],
      [type |-> "session.error", status |-> "none", sessionID |-> SessionB] }

ReceiveOfTwoSessions(p) == \E e \in TwoSessionEvents : ReceiveEvent(p, e)

NextSessions ==
    \/ \E p \in Handlers : ReceiveOfTwoSessions(p)
    \/ \E p \in Handlers : SessionGetResolves(p)
    \/ \E p \in Handlers : SessionGetRejects(p)
    \/ \E p \in Handlers : ToastSettles(p)
    \/ \E p \in Handlers : IdleResume(p)
    \/ \E p \in Handlers : DispatchSettled(p)
    \/ Tick

SpecSessions == Init /\ [][NextSessions]_vars

\* ------------------------------------------------ per-session scheduler

MaxSchedTime == 700     \* the clock advances by delays up to here past a period boundary
MaxSequence == 3        \* no event is delivered that would bump a sequence past this
MaxInFlight == 2        \* calls of processSessionIdle awaiting isChildSession at a time

\* The closure state of createNotifierPlugin, which the scheduler does not touch.
notifierPlugin ==
    <<arbiter, inv, pluginConfig, pluginInput, configFile,
      lastCompletionEmitAt, lastErrorEmitAt>>

\* The session ids the events of index.ts carry.
SessionIDs == {SessionA, SessionB}

\* Map.has, Map.set, Map.delete
Has(map, key) == key \in DOMAIN map

Put(map, key, value) ==
    [k \in DOMAIN map \cup {key} |-> IF k = key THEN value ELSE map[k]]

Delete(map, key) == [k \in DOMAIN map \ {key} |-> map[k]]

\* Mutant: clearing the timer of one session clears the timers of all.
clearAllPendingIdleTimers(timers, sessionID) == EmptyMap

\* clearPendingIdleTimer: clearTimeout and delete the entry, if there is one.
clearPendingIdleTimer(timers, sessionID) == Delete(timers, sessionID)

\* `sessionIdleSequence.get(sessionID) ?? 0`
SequenceOf(sessionID) ==
    IF Has(sessionIdleSequence, sessionID) THEN sessionIdleSequence[sessionID] ELSE 0

\* bumpSessionIdleSequence: the map after the bump.
bumpSessionIdleSequence(sessionID) ==
    Put(sessionIdleSequence, sessionID, SequenceOf(sessionID) + 1)

\* hasCurrentSessionIdleSequence: `sessionIdleSequence.get(sessionID) === sequence`
hasCurrentSessionIdleSequence(sequences, sessionID, sequence) ==
    Has(sequences, sessionID) /\ sequences[sessionID] = sequence

\* markSessionBusy: `sessionErrorSuppressionAt.delete(sessionID)`
AfterBusy(marks, sessionID) == Delete(marks, sessionID)

\* shouldSuppressSessionIdle, its effect: the mark is deleted on each path that finds one.
shouldSuppressDeletes(marks, sessionID) == Delete(marks, sessionID)

\* shouldSuppressSessionIdle, its result.
shouldSuppressSessionIdle(sessionID) ==
    /\ Has(sessionErrorSuppressionAt, sessionID)
    /\ ~ ( /\ Has(sessionLastBusyAt, sessionID)
           /\ sessionLastBusyAt[sessionID] > sessionErrorSuppressionAt[sessionID] )

\* What one step of the scheduler reports: the session it was about, why it
\* ended without a notification (log), the notification it decided on (emit),
\* and, for the final sequence check of a delayed idle, whether a busy, error
\* or idle event of that session was handled since the idle was scheduled.
SchedStep(step, sessionID, log, emit, superseded) ==
    [step |-> step, sessionID |-> sessionID, log |-> log, emit |-> emit,
     superseded |-> superseded]

\* An event of this session is handled: every call of processSessionIdle for
\* the session that is awaiting isChildSession has seen it (history).
SeenBy(sessionID) ==
    { [call EXCEPT !.superseded = IF call.sessionID = sessionID THEN TRUE ELSE @] :
        call \in processing }

\* session.idle with a session id: scheduleSessionIdle.
ReceiveSessionIdle(sessionID) ==
    /\ SequenceOf(sessionID) < MaxSequence
    /\ sessionIdleSequence' = bumpSessionIdleSequence(sessionID)
    /\ pendingIdleTimers' =
          Put(clearPendingIdleTimer(pendingIdleTimers, sessionID), sessionID,
              [sequence |-> SequenceOf(sessionID) + 1, due |-> now + IDLE_COMPLETE_DELAY_MS])
    /\ processing' = SeenBy(sessionID)
    /\ last' = SchedStep("session.idle", sessionID, "none", "none", FALSE)
    /\ UNCHANGED <<now, notifierPlugin, player, lastNotificationTime,
                   sessionErrorSuppressionAt, sessionLastBusyAt, nextCleanupAt>>

\* session.idle without session id: the completion is notified at once.
ReceiveIdleWithoutSession ==
    /\ last' = SchedStep("session.idle", NoSession, "none", "complete", FALSE)
    /\ UNCHANGED <<now, notifierPlugin, components>>

\* session.status with status busy: markSessionBusy.
ReceiveSessionBusy(sessionID) ==
    /\ SequenceOf(sessionID) < MaxSequence
    /\ sessionLastBusyAt' = Put(sessionLastBusyAt, sessionID, now)
    /\ sessionErrorSuppressionAt' = AfterBusy(sessionErrorSuppressionAt, sessionID)
    /\ sessionIdleSequence' = bumpSessionIdleSequence(sessionID)
    /\ pendingIdleTimers' = clearPendingIdleTimer(pendingIdleTimers, sessionID)
    /\ processing' = SeenBy(sessionID)
    /\ last' = SchedStep("session.busy", sessionID, "none", "none", FALSE)
    /\ UNCHANGED <<now, notifierPlugin, player, lastNotificationTime, nextCleanupAt>>

\* session.error: markSessionError, then the error is notified.
ReceiveSessionError(sessionID) ==
    /\ SequenceOf(sessionID) < MaxSequence
    /\ sessionErrorSuppressionAt' = Put(sessionErrorSuppressionAt, sessionID, now)
    /\ sessionIdleSequence' = bumpSessionIdleSequence(sessionID)
    /\ pendingIdleTimers' = clearPendingIdleTimer(pendingIdleTimers, sessionID)
    /\ processing' = SeenBy(sessionID)
    /\ last' = SchedStep("session.error", sessionID, "none", "error", FALSE)
    /\ UNCHANGED <<now, notifierPlugin, player, lastNotificationTime,
                   sessionLastBusyAt, nextCleanupAt>>

\* session.error without session id: markSessionError returns at once.
ReceiveErrorWithoutSession ==
    /\ last' = SchedStep("session.error", NoSession, "none", "error", FALSE)
    /\ UNCHANGED <<now, notifierPlugin, components>>

\* permission.updated, permission.asked
ReceivePermission ==
    /\ last' = SchedStep("permission", NoSession, "none", "permission", FALSE)
    /\ UNCHANGED <<now, notifierPlugin, components>>

\* The timer of a scheduled idle fires: its entry is deleted and
\* processSessionIdle runs up to `await isChildSession(client, sessionID)`.
TimerFires(sessionID) ==
    /\ Has(pendingIdleTimers, sessionID)
    /\ now >= pendingIdleTimers[sessionID].due
    /\ Cardinality(processing) < MaxInFlight
    /\ pendingIdleTimers' = Delete(pendingIdleTimers, sessionID)
    /\ IF ~hasCurrentSessionIdleSequence(sessionIdleSequence, sessionID,
                                         pendingIdleTimers[sessionID].sequence)
       THEN /\ last' = SchedStep("timer", sessionID, "stale", "none", FALSE)
            /\ UNCHANGED <<sessionErrorSuppressionAt, processing>>
       ELSE IF shouldSuppressSessionIdle(sessionID)
       THEN /\ sessionErrorSuppressionAt' =
                  shouldSuppressDeletes(sessionErrorSuppressionAt, sessionID)
            /\ last' = SchedStep("timer", sessionID, "suppressed", "none", FALSE)
            /\ UNCHANGED processing
       ELSE /\ sessionErrorSuppressionAt' =
                  shouldSuppressDeletes(sessionErrorSuppressionAt, sessionID)
            /\ processing' = processing \cup
                  { [sessionID |-> sessionID,
                     sequence |-> pendingIdleTimers[sessionID].sequence,
                     superseded |-> FALSE] }
            /\ last' = SchedStep("timer", sessionID, "none", "none", FALSE)
    /\ UNCHANGED <<now, notifierPlugin, player, lastNotificationTime,
                   sessionIdleSequence, sessionLastBusyAt, nextCleanupAt>>

\* isChildSession settles for a call in flight (a rejected lookup counts as
\* "not a child"): the final sequence check, then the notification.
IsChildSettles(call, isChild) ==
    /\ call \in processing
    /\ processing' = processing \ {call}
    /\ IF ~hasCurrentSessionIdleSequence(sessionIdleSequence, call.sessionID, call.sequence)
       THEN last' = SchedStep("processed", call.sessionID, "stale", "none", call.superseded)
       ELSE last' = SchedStep("processed", call.sessionID, "none",
                              IF isChild THEN "subagent_complete" ELSE "complete",
                              call.superseded)
    /\ UNCHANGED <<now, notifierPlugin, player, lastNotificationTime, pendingIdleTimers,
                   sessionIdleSequence, sessionErrorSuppressionAt, sessionLastBusyAt,
                   nextCleanupAt>>

ProcessingResumes ==
    \E call \in processing : \E isChild \in BOOLEAN : IsChildSettles(call, isChild)

\* The entries with a time stamp before the cutoff are deleted.
NotBefore(map, cutoff) == [k \in { key \in DOMAIN map : ~ ( map[key] < cutoff ) } |-> map[k]]

\* The callback of `setInterval(..., 5 * 60 * 1000)`.
Cleanup ==
    /\ now >= nextCleanupAt
    /\ nextCleanupAt' = nextCleanupAt + CLEANUP_INTERVAL_MS
    /\ sessionIdleSequence' =
          [k \in { key \in DOMAIN sessionIdleSequence : Has(pendingIdleTimers, key) }
             |-> sessionIdleSequence[k]]
    /\ sessionErrorSuppressionAt' =
          NotBefore(sessionErrorSuppressionAt, now - CLEANUP_INTERVAL_MS)
    /\ sessionLastBusyAt' = NotBefore(sessionLastBusyAt, now - CLEANUP_INTERVAL_MS)
    /\ last' = SchedStep("cleanup", NoSession, "none", "none", FALSE)
    /\ UNCHANGED <<now, notifierPlugin, player, lastNotificationTime,
                   pendingIdleTimers, processing>>

\* Date.now() advances by the delay of an idle.
DelayPasses ==
    /\ (now % CLEANUP_INTERVAL_MS) + IDLE_COMPLETE_DELAY_MS <= MaxSchedTime
    /\ now' = now + IDLE_COMPLETE_DELAY_MS
    /\ last' = SchedStep("tick", NoSession, "none", "none", FALSE)
    /\ UNCHANGED <<notifierPlugin, components>>

\* Date.now() advances by the period of the cleanup, with no timer waiting.
IntervalPasses ==
    /\ now <= MaxSchedTime
    /\ pendingIdleTimers = EmptyMap
    /\ now' = now + CLEANUP_INTERVAL_MS
    /\ last' = SchedStep("tick", NoSession, "none", "none", FALSE)
    /\ UNCHANGED <<notifierPlugin, components>>

\* index.ts is loaded at most one period before the first event: the first
\* cleanup falls at the first event, one delay later, or a full period later.
CleanupPhases == {0, IDLE_COMPLETE_DELAY_MS, CLEANUP_INTERVAL_MS}

InitScheduler ==
    /\ now = 0
    /\ lastErrorTime = NEVER
    /\ lastIdleNotificationTime = NEVER
    /\ pendingIdleNotification = NoHandle
    /\ inv = [p \in Handlers |-> Free]
    /\ pluginConfig = NoConfig
    /\ pluginInput = "none"
    /\ configFile = NoFile
    /\ last = SchedStep("none", NoSession, "none", "none", FALSE)
    /\ lastCompletionEmitAt = NEVER
    /\ lastErrorEmitAt = NEVER
    /\ player = NoCall
    /\ lastNotificationTime = EmptyMap
    /\ pendingIdleTimers = EmptyMap
    /\ sessionIdleSequence = EmptyMap
    /\ sessionErrorSuppressionAt = EmptyMap
    /\ sessionLastBusyAt = EmptyMap
    /\ processing = {}
    /\ nextCleanupAt \in CleanupPhases

\* The scheduler under the events of one session, with the cleanup interval.
NextScheduler ==
    \/ ReceiveSessionIdle(SessionA)
    \/ ReceiveIdleWithoutSession
    \/ ReceiveSessionBusy(SessionA)
    \/ ReceiveSessionError(SessionA)
    \/ ReceiveErrorWithoutSession
    \/ ReceivePermission
    \/ TimerFires(SessionA)
    \/ ProcessingResumes
    \/ Cleanup
    \/ DelayPasses
    \/ IntervalPasses

SpecScheduler == InitScheduler /\ [][NextScheduler]_vars

\* The scheduler under the events of two sessions, within one period of the
\* cleanup interval.
InitTwoSessions ==
    /\ InitScheduler
    /\ nextCleanupAt = CLEANUP_INTERVAL_MS

NextTwoSessions ==
    \/ \E sessionID \in SessionIDs : ReceiveSessionIdle(sessionID)
    \/ \E sessionID \in SessionIDs : ReceiveSessionBusy(sessionID)
    \/ \E sessionID \in SessionIDs : ReceiveSessionError(sessionID)
    \/ \E sessionID \in SessionIDs : TimerFires(sessionID)
    \/ ProcessingResumes
    \/ DelayPasses

SpecTwoSessions == InitTwoSessions /\ [][NextTwoSessions]_vars

\* ------------------------------------------------ notification debounce

MaxNotifyTime == 3500   \* the clock of the notifier stops here
NotifyTickMs == 500     \* granularity of the clock of the notifier

\* The message texts sendNotification is called with (the default messages of
\* the permission and complete events).
Messages == {"OpenCode needs permission", "OpenCode has finished"}

\* Mutant: sendNotification without the debounce.
DebouncedNever(times, message, at) == FALSE

\* `lastNotificationTime[message] && now - lastNotificationTime[message] < DEBOUNCE_MS`
Debounced(times, message, at) ==
    /\ Has(times, message)
    /\ times[message] # 0
    /\ at - times[message] < DEBOUNCE_MS

\* What one step of the notifier reports: whether platformNotifier.notify was
\* called for the message, and when it was last called for each message
\* (history, NEVER before the first call).
NotifyStep(step, message, deliveredAt) ==
    [step |-> step, message |-> message, deliveredAt |-> deliveredAt]

\* sendNotification(message, timeout, imagePath, title)
SendNotification(message) ==
    /\ IF Debounced(lastNotificationTime, message, now)
       THEN /\ last' = NotifyStep("dropped", message, last.deliveredAt)
            /\ UNCHANGED lastNotificationTime
       ELSE /\ lastNotificationTime' = Put(lastNotificationTime, message, now)
            /\ last' = NotifyStep("delivered", message,
                                  [last.deliveredAt EXCEPT ![message] = now])
    /\ UNCHANGED <<now, notifierPlugin, player, scheduler>>

\* Date.now() advances.
NotifyTick ==
    /\ now + NotifyTickMs <= MaxNotifyTime
    /\ now' = now + NotifyTickMs
    /\ last' = NotifyStep("tick", "none", last.deliveredAt)
    /\ UNCHANGED <<notifierPlugin, components>>

\* notify.ts as its module is loaded; Date.now() is positive.
InitNotify ==
    /\ now = DEBOUNCE_MS
    /\ lastErrorTime = NEVER
    /\ lastIdleNotificationTime = NEVER
    /\ pendingIdleNotification = NoHandle
    /\ inv = [p \in Handlers |-> Free]
    /\ pluginConfig = NoConfig
    /\ pluginInput = "none"
    /\ configFile = NoFile
    /\ last = NotifyStep("none", "none", [message \in Messages |-> NEVER])
    /\ lastCompletionEmitAt = NEVER
    /\ lastErrorEmitAt = NEVER
    /\ NoComponents

NextNotify ==
    \/ \E message \in Messages : SendNotification(message)
    \/ NotifyTick

SpecNotify == InitNotify /\ [][NextNotify]_vars

\* ------------------------------------------------------- reading a step

\* The step just taken ran the arbitration of an event of this kind.
ArbitratedError == last.step = "arbitrated" /\ last.type = "session.error"

ArbitratedIdle ==
    last.step = "arbitrated" /\ last.type = "session.status" /\ last.status = "idle"

ArbitratedBusy ==
    last.step = "arbitrated" /\ last.type = "session.status" /\ last.status = "busy"

ArbitratedPermission == last.step = "arbitrated" /\ last.type = "permission.updated"

\* This step is handler p receiving event e from the host.
Receives(p, e) ==
    /\ inv[p].pc = "free"
    /\ \/ last'.type = e.type /\ last'.status = e.status
       \/ inv'[p].type = e.type /\ inv'[p].status = e.status
    /\ ReceiveEvent(p, e)

\* Handler p leaves its grace delay in this step (its timer fired).
Resumes(p) == inv[p].pc = "delay" /\ inv'[p].pc # "delay"

\* Some handler arms a grace delay in this step.
ArmsDelay == \E q \in Handlers : inv[q].pc # "delay" /\ inv'[q].pc = "delay"

\* No suspended idle handler is cancelled in this step.
NoneCancelled ==
    \A q \in Handlers :
        inv[q].pc = "delay" => inv'[q].pc = "delay" /\ inv'[q].cancelled = inv[q].cancelled

\* ---------------------------------------------------------------- claims

\* C1 (as claimed): a Completion/DelegatedCompletion decision and an Error
\* decision are never both emitted less than 150 ms apart.
C1_NeverBothWithinWindow ==
    ~ ( /\ lastCompletionEmitAt >= 0
        /\ lastErrorEmitAt >= 0
        /\ lastCompletionEmitAt - lastErrorEmitAt < RACE_CONDITION_DEBOUNCE_MS
        /\ lastErrorEmitAt - lastCompletionEmitAt < RACE_CONDITION_DEBOUNCE_MS )

\* C2 (as claimed): every idle handler that is suspended in its grace delay
\* when an error is arbitrated before the delay is due emits no decision when
\* it resumes, and that error emits no Error decision.
C2_EveryPendingIdleCancelled ==
    [][ /\ \A p \in Handlers :
              Resumes(p) /\ inv[p].errSeen = "inDelay" => last'.emit = "none"
        /\ ( /\ ArbitratedError'
             /\ \E p \in Handlers : inv[p].pc = "delay" /\ now < inv[p].due )
           => last'.emit = "none" ]_vars

\* C2 (amended): an error arbitrated while pendingIdleNotification is set
\* emits no Error decision, leaves lastErrorTime alone, clears the handle and
\* cancels the idle handler that stored it, which is still in its delay; and a
\* cancelled idle handler emits no decision when it resumes.
C2_StoredHandleCancelled ==
    [][ /\ ( ArbitratedError' /\ pendingIdleNotification # NoHandle )
           => /\ last'.emit = "none"
              /\ last'.log = "cancelPendingIdle"
              /\ lastErrorTime' = lastErrorTime
              /\ pendingIdleNotification' = NoHandle
              /\ inv[pendingIdleNotification].pc = "delay"
              /\ inv'[pendingIdleNotification].pc = "delay"
              /\ inv'[pendingIdleNotification].cancelled
        /\ \A p \in Handlers :
              Resumes(p) /\ inv[p].cancelled
              => last'.emit = "none" /\ inv'[p].pc = "free" ]_vars

\* C2 witness: an idle handler cancelled by an error has resumed and emitted nothing.
C2_Witness == last.step = "resumed" /\ last.log = "cancelled" /\ last.emit = "none"

\* C3: an idle event arbitrated with lastErrorTime set and less than 150 ms
\* old returns at once: no decision, no delay armed, the debounce state
\* unchanged; at 150 ms or more (or with no error yet) the delay is armed.
C3_IdleRule1 ==
    [][ ArbitratedIdle'
        => IF lastErrorTime >= 0 /\ now - lastErrorTime < 150
           THEN /\ last'.emit = "none"
                /\ last'.log = "skipIdleAfterError"
                /\ ~ArmsDelay
                /\ UNCHANGED arbiter
           ELSE /\ ArmsDelay
                /\ last'.emit = "none"
                /\ pendingIdleNotification' # NoHandle ]_vars

\* C3 witness: an idle event was arbitrated inside the window and was skipped.
C3_Witness ==
    /\ ArbitratedIdle
    /\ last.log = "skipIdleAfterError"
    /\ lastErrorTime >= 0
    /\ now - lastErrorTime < 150

\* C4 (as claimed): an error arbitrated less than 150 ms after an
\* idle-derived decision was emitted produces no Error decision and leaves
\* lastErrorTime unchanged.
C4_ErrorAfterEmittedIdleSuppressed ==
    [][ ( /\ ArbitratedError'
          /\ lastCompletionEmitAt >= 0
          /\ now - lastCompletionEmitAt < RACE_CONDITION_DEBOUNCE_MS )
        => last'.emit = "none" /\ lastErrorTime' = lastErrorTime ]_vars

\* C5: an idle handler that armed its delay and saw no error arbitrated while
\* it was suspended emits, when its timer fires, exactly one decision, of the
\* classification chosen at arming (complete or subagent); the join of the
\* dispatchers emits nothing more.
C5_UndisturbedIdleEmits ==
    [][ /\ \A p \in Handlers :
              Resumes(p) /\ inv[p].errSeen = "no"
              => /\ last'.emit = inv[p].eventType
                 /\ last'.emit \in {"complete", "subagent"}
                 /\ lastCompletionEmitAt' = now
        /\ \A p \in Handlers :
              inv[p].pc = "dispatch" /\ inv'[p].pc # "dispatch" => last'.emit = "none" ]_vars

\* C5 witness: after an earlier Error decision, an idle handler resumed
\* undisturbed and emitted a completion.
C5_Witness ==
    /\ last.step = "resumed"
    /\ last.emit = "complete"
    /\ lastErrorEmitAt >= 0
    /\ lastCompletionEmitAt = now

\* C6: an error arbitrated with no pending idle handle and no idle
\* notification recorded in the last 150 ms emits one Error decision and sets
\* lastErrorTime to the arbitration time.
C6_RealErrorEmitted ==
    [][ ( /\ ArbitratedError'
          /\ pendingIdleNotification = NoHandle
          /\ ( lastIdleNotificationTime = NEVER
               \/ now - lastIdleNotificationTime >= 150 ) )
        => /\ last'.emit = "error"
           /\ lastErrorTime' = now
           /\ lastErrorEmitAt' = now ]_vars

\* C6 witness: an Error decision emitted 150 ms or more after an idle notification.
C6_Witness ==
    /\ ArbitratedError
    /\ last.emit = "error"
    /\ lastIdleNotificationTime >= 0
    /\ lastErrorTime = now

C9_PermissionAskedNotifies ==
    ( last.step = "arbitrated" /\ last.type = "permission.asked" )
    => /\ last.emit = "permission"
       /\ Promises(pluginConfig, "permission") = {"sendNotification", "playSound"}

\* C10: a busy status event emits no decision, arms and cancels nothing, and
\* leaves lastErrorTime, lastIdleNotificationTime and pendingIdleNotification
\* as they were.
C10_BusyIsInert ==
    [][ ArbitratedBusy'
        => /\ last'.emit = "none"
           /\ ~ArmsDelay
           /\ NoneCancelled
           /\ UNCHANGED arbiter ]_vars

\* C10 witness: a busy event handled after an Error decision and an idle
\* notification, with another idle notification pending.
C10_Witness ==
    /\ ArbitratedBusy
    /\ pendingIdleNotification # NoHandle
    /\ lastErrorTime >= 0
    /\ lastIdleNotificationTime >= 0

\* C11: an idle event is classified when its delay is armed: "subagent" if and
\* only if the step is the resolution of the session lookup with a session that
\* has a parent id, "complete" in every other case (no lookup, no data, a
\* rejected lookup, a session without parent); and the decision an idle handler
\* emits when it resumes is the one classified at arming.
C11_SubagentIffParentLookedUp ==
    [][ \A p \in Handlers :
          /\ ( inv[p].pc # "delay" /\ inv'[p].pc = "delay" )
             => /\ inv'[p].eventType \in {"complete", "subagent"}
                /\ inv'[p].eventType = "subagent"
                   <=> \E session \in SessionData :
                          session.parentID # NoSession /\ SessionFound(p, session)
          /\ ( Resumes(p) /\ last'.emit # "none" )
             => last'.emit = inv[p].eventType ]_vars

\* C11 witness: an idle handler whose lookup returned a sub-session resumed and
\* emitted the subagent decision.
C11_Witness ==
    /\ last.step = "resumed"
    /\ last.emit = "subagent"
    /\ last.title = "Sub task"

\* The arbitration of handler p's event e in this step ran with the default
\* title and no parent: the decision, if one is emitted, is titled "OpenCode",
\* an error event emits the Error decision wherever the error rules allow it,
\* and an idle event arms its delay, classified complete, wherever the idle
\* rule allows it.
ArbitratedWithDefaults(p, e) ==
    /\ last'.step = "arbitrated"
    /\ last'.type = e.type
    /\ last'.status = e.status
    /\ last'.title = DefaultTitle
    /\ inv'[p].pc \in {"free", "delay", "dispatch"}
    /\ inv'[p].pc = "delay"
       => inv'[p].sessionTitle = DefaultTitle /\ inv'[p].eventType = "complete"
    /\ ( /\ e.type = "session.error"
         /\ pendingIdleNotification = NoHandle
         /\ ~ ( lastIdleNotificationTime >= 0 /\ now - lastIdleNotificationTime < 150 ) )
       => last'.emit = "error"
    /\ ( /\ e.type = "session.status"
         /\ e.status = "idle"
         /\ ~ ( lastErrorTime >= 0 /\ now - lastErrorTime < 150 ) )
       => inv'[p].pc = "delay"

\* C12: a rejected session lookup is handled as a lookup that found nothing.
\* Without a tui the step taken on the rejection is the very step taken when
\* the lookup resolves without data; with a tui the handler first awaits the
\* toast, touching nothing, and once the toast has settled (either way) it
\* arbitrates with the default title and no parent, as the not-found step does.
\* No step ends with the rejection escaping the handler.
C12_RejectedLookupAsNotFound ==
    [][ \A p \in Handlers :
          /\ SessionGetRejects(p)
             => /\ last'.step # "threw"
                /\ IF pluginInput = "client+tui"
                   THEN /\ inv' = [inv EXCEPT ![p].pc = "toast"]
                        /\ last'.emit = "none"
                        /\ UNCHANGED arbiter
                   ELSE SessionNotFound(p) /\ ArbitratedWithDefaults(p, inv[p])
          /\ ToastSettles(p) => ArbitratedWithDefaults(p, inv[p])
          /\ SessionNotFound(p) => ArbitratedWithDefaults(p, inv[p]) ]_vars

\* C12 witness: the lookup of an error event was rejected after an idle
\* notification; the handler caught it and is showing the toast.
C12_Witness ==
    \E p \in Handlers :
        /\ inv[p].pc = "toast"
        /\ inv[p].type = "session.error"
        /\ lastIdleNotificationTime >= 0

\* C13: an event without session id, or any event when the plugin was created
\* without pluginInput, is arbitrated in the step that receives it, with the
\* default title and no parent; a handler is suspended on the lookup (or on the
\* toast of a failed lookup) only for an event with a session id and only when
\* there is a pluginInput.
C13_NoLookupWithoutIdOrInput ==
    [][ \A p \in Handlers :
          /\ \A e \in Events :
                ( ( e.sessionID = NoSession \/ pluginInput = "none" ) /\ Receives(p, e) )
                => /\ inv'[p].pc \notin {"lookup", "toast"}
                   /\ ArbitratedWithDefaults(p, e)
          /\ inv'[p].pc \in {"lookup", "toast"}
             => inv'[p].sessionID # NoSession /\ pluginInput # "none" ]_vars

\* C13 witness: without pluginInput, an idle event was classified complete
\* and its decision emitted with the default title.
C13_Witness ==
    /\ pluginInput = "none"
    /\ last.step = "resumed"
    /\ last.emit = "complete"
    /\ last.title = DefaultTitle

\* C14: no step ends with a rejection escaping the handler.  A handler that
\* was awaiting the session lookup or the toast goes on, however the promise
\* settled, to arbitrate its event (or, from the lookup, to show the toast); a
\* handler that was awaiting the dispatchers runs to its end however they
\* settled, which on the idle path records lastIdleNotificationTime, and
\* touches nothing else.
C14_NoExceptionEscapes ==
    [][ /\ last'.step \in {"none", "arbitrated", "resumed"}
        /\ \A p \in Handlers :
              /\ ( inv[p].pc = "lookup" /\ inv'[p].pc # "lookup" )
                 => \/ inv'[p] = [inv[p] EXCEPT !.pc = "toast"]
                    \/ last'.step = "arbitrated" /\ last'.type = inv[p].type
              /\ ( inv[p].pc = "toast" /\ inv'[p].pc # "toast" )
                 => last'.step = "arbitrated" /\ last'.type = inv[p].type
              /\ ( inv[p].pc = "dispatch" /\ inv'[p].pc # "dispatch" )
                 => /\ inv'[p].pc = "free"
                    /\ inv[p].eventType \in {"complete", "subagent"}
                       => lastIdleNotificationTime' = now
                    /\ inv[p].eventType \notin {"complete", "subagent"}
                       => lastIdleNotificationTime' = lastIdleNotificationTime
                    /\ UNCHANGED <<lastErrorTime, pendingIdleNotification>> ]_vars

\* C14 witness: one handler has caught a rejected lookup and is showing the
\* toast while another awaits the dispatchers of a completion.
C14_Witness ==
    \E p, q \in Handlers :
        /\ inv[p].pc = "toast"
        /\ inv[q].pc = "dispatch"
        /\ inv[q].eventType = "complete"

\* The dispatchers enabled in the configuration for a decision.
EnabledDispatchers(decision) ==
    { d \in {"sendNotification", "playSound"} :
        \/ d = "sendNotification" /\ pluginConfig.events[decision].notification
        \/ d = "playSound" /\ pluginConfig.events[decision].sound }

\* C15: in the step that emits a decision every enabled dispatcher is started,
\* before the handler awaits any of them (with none enabled the handler does not
\* suspend).  While it awaits, the settlement of one promise, fulfilled or
\* rejected, leaves the other pending and the handler suspended; the handler
\* resumes only in the step in which the last pending promise settles, and
\* then runs to its end whatever the outcomes were.
C15_BothStartedJoinedWaitForAll ==
    [][ /\ ( /\ last'.emit # "none"
             /\ \A p \in Handlers : ~ ( inv[p].pc # "dispatch" /\ inv'[p].pc = "dispatch" ) )
           => EnabledDispatchers(last'.emit) = {}
        /\ \A p \in Handlers :
          /\ ( inv[p].pc # "dispatch" /\ inv'[p].pc = "dispatch" )
             => /\ last'.emit # "none"
                /\ inv'[p].eventType = last'.emit
                /\ inv'[p].pending = EnabledDispatchers(last'.emit)
                /\ inv'[p].pending # {}
          /\ ( inv[p].pc = "dispatch" /\ inv'[p].pc = "dispatch" )
             => \/ inv'[p] = inv[p]
                \/ /\ Cardinality(inv[p].pending) = 2
                   /\ Cardinality(inv'[p].pending) = 1
                   /\ inv'[p].pending \subseteq inv[p].pending
          /\ ( inv[p].pc = "dispatch" /\ inv'[p].pc # "dispatch" )
             => /\ Cardinality(inv[p].pending) = 1
                /\ inv'[p].pc = "free"
                /\ last'.step # "threw"
                /\ inv[p].eventType \in {"complete", "subagent"}
                   => lastIdleNotificationTime' = now ]_vars

\* C15 witness: of the two dispatchers started for an Error decision one has
\* settled and the handler still awaits the other.
C15_Witness ==
    \E p \in Handlers :
        /\ inv[p].pc = "dispatch"
        /\ inv[p].eventType = "error"
        /\ EnabledDispatchers("error") = {"sendNotification", "playSound"}
        /\ Cardinality(inv[p].pending) = 1

\* C16: every decision handed to handleEvent carries a non-empty title, the
\* default or the title of a session the host knows.  A decision emitted in
\* the step that resolves a lookup with a session carries that session's title
\* (the default if it has none); an idle handler stores the title its own event
\* resolved to when it arms its delay, and the decision it emits when it
\* resumes carries that stored title, whatever other handlers are in flight.
C16_TitleOfOwnSession ==
    [][ /\ last'.emit # "none"
           => /\ last'.title # ""
              /\ last'.title \in {DefaultTitle} \cup { session.title : session \in SessionData }
        /\ \A p \in Handlers :
              /\ \A session \in SessionData :
                    SessionFound(p, session)
                    => /\ last'.emit # "none"
                          => last'.title =
                                IF session.title = "" THEN DefaultTitle ELSE session.title
                       /\ inv'[p].pc = "delay"
                          => inv'[p].sessionTitle =
                                IF session.title = "" THEN DefaultTitle ELSE session.title
              /\ ( /\ inv[p].pc # "delay"
                   /\ inv'[p].pc = "delay"
                   /\ ~ \E session \in SessionData : SessionFound(p, session) )
                 => inv'[p].sessionTitle = DefaultTitle
              /\ ( Resumes(p) /\ last'.emit # "none" )
                 => last'.title = inv[p].sessionTitle ]_vars

\* C16 witness: an idle handler resumed and emitted its completion under the
\* default title while the idle handler of a titled session was still in its
\* delay.
C16_Witness ==
    /\ last.step = "resumed"
    /\ last.emit = "complete"
    /\ last.title = DefaultTitle
    /\ \E q \in Handlers : inv[q].pc = "delay" /\ inv[q].sessionTitle = "Sub task"

\* C17 (as claimed): a session.created event emits no decision and leaves the
\* debounce state alone, and the event handled next, if it carries the id the
\* session.created event described, makes no session lookup.
C17_SessionInfoCached ==
    [][ /\ ( last'.step = "arbitrated" /\ last'.type = "session.created" )
           => last'.emit = "none" /\ UNCHANGED arbiter
        /\ \A p \in Handlers : \A e \in HostEvents :
              ( /\ last.step = "arbitrated"
                /\ last.type = "session.created"
                /\ e.sessionID \in { created.info.id : created \in SessionInfoEvents }
                /\ Receives(p, e) )
              => inv'[p].pc # "lookup" ]_vars

\* C18 (as claimed): once a lookup has succeeded for the session (the idle
\* handler that made it is in its delay with the title it returned), a later
\* event with that session id starts no further lookup.  All session ids of
\* the model are the one of Sessions.
C18_NoSecondLookup ==
    [][ \A a, b \in Handlers : \A e \in Events :
          ( /\ inv[a].pc = "delay"
            /\ inv[a].sessionTitle # DefaultTitle
            /\ e.sessionID \in Sessions
            /\ Receives(b, e) )
          => inv'[b].pc # "lookup" ]_vars

\* C19: nothing of a failed lookup is kept.  Whatever lookups have failed
\* before (one may still be showing its toast), an event with a session id is
\* suspended on a lookup of its own when there is a pluginInput, and when that
\* lookup resolves with a session the decision carries its title.
C19_FailedLookupRetried ==
    [][ \A p \in Handlers :
          /\ \A e \in Events :
                ( e.sessionID \in Sessions /\ pluginInput # "none" /\ Receives(p, e) )
                => /\ inv'[p].pc = "lookup"
                   /\ inv'[p].sessionID = e.sessionID
                   /\ inv'[p].type = e.type
                   /\ last'.emit = "none"
          /\ \A session \in SessionData :
                ( SessionFound(p, session) /\ last'.emit # "none" /\ session.title # "" )
                => last'.title = session.title ]_vars

\* C19 witness: while one handler is showing the toast of its failed lookup,
\* the lookup of another event with the same session id has succeeded and its
\* title is on the Error decision.
C19_Witness ==
    /\ ArbitratedError
    /\ last.emit = "error"
    /\ last.title = "Sub task"
    /\ \E a \in Handlers : inv[a].pc = "toast" /\ inv[a].sessionID \in Sessions

\* An event the handler has no decision for: a type without a branch
\* (message.updated), or a session.status whose status is missing or not idle.
Undecidable(type, status) ==
    \/ type = "message.updated"
    \/ type = "session.status" /\ status # "idle"

Invoked ==
    UNION { inv'[p].pending : p \in { q \in Handlers : inv[q].pc # "dispatch"
                                                       /\ inv'[q].pc = "dispatch" } }

\* C21: in the step that emits a decision of classification c,
\* sendNotification is called if and only if events[c].notification is true
\* and playSound if and only if events[c].sound is true, each whatever the
\* other flag is; with both false no handler enters the join and the emitting
\* handler has run to its end without a rejection.  No dispatcher is called in
\* a step that emits no decision.
C21_FlagsGateIndependently ==
    [][ /\ ( last'.emit # "none" )
           => /\ ( "sendNotification" \in Invoked )
                 <=> pluginConfig.events[last'.emit].notification
              /\ ( "playSound" \in Invoked )
                 <=> pluginConfig.events[last'.emit].sound
              /\ ( /\ ~pluginConfig.events[last'.emit].notification
                   /\ ~pluginConfig.events[last'.emit].sound )
                 => /\ last'.step \in {"arbitrated", "resumed"}
                    /\ \A p \in Handlers :
                          inv'[p].pc # inv[p].pc => inv'[p].pc = "free"
        /\ ( last'.emit = "none" ) => ( Invoked = {} ) ]_vars

\* C21 witness: an Error decision was emitted with both flags of error off
\* (nothing called, the handler is free) while the handler of a permission
\* decision awaits playSound alone, notification being off for permission.
C21_Witness ==
    /\ last.emit = "error"
    /\ pluginConfig.events["error"] = AllOff
    /\ \E p \in Handlers :
          /\ inv[p].pc = "dispatch"
          /\ inv[p].eventType = "permission"
          /\ inv[p].pending = {"playSound"}
    /\ \A p \in Handlers : inv[p].pc = "dispatch" => inv[p].eventType # "error"

\* C22 (as claimed): loadConfig never throws, and for a file that is missing or
\* cannot be parsed it returns the default configuration, in which the global
\* sound and notification toggles are both true and timeout is 5.
C22_DefaultsOnMissingOrUnparsable ==
    /\ last.step # "threw"
    /\ ( last.step = "loaded" /\ configFile.kind \in {"absent", "unparsable", "null"} )
       => /\ pluginConfig = DEFAULT_CONFIG
          /\ pluginConfig.sound = TRUE
          /\ pluginConfig.notification = TRUE
          /\ pluginConfig.timeout = 5

\* The setting loadConfig resolves for an event type of the file's object.
UserEventOf(userConfig, eventType) ==
    IF eventType = "permission" /\ userConfig.events.permission.kind = "undefined"
    THEN userConfig.permission
    ELSE userConfig.events[eventType]

C24_PendingIffHandlerInDelay ==
    /\ ( pendingIdleNotification # NoHandle ) <=> ( \E p \in Handlers : inv[p].pc = "delay" )
    /\ \A p \in Handlers : inv[p].pc = "delay" => pendingIdleNotification = p

\* C24 (amended): at most one handle is stored, and while one is stored the
\* handler that stored it is suspended in its delay and has not been
\* cancelled.  (Not conversely: a cancelled handler, and a handler whose handle
\* was replaced or cleared by another idle handler, wait in their delay with
\* pendingIdleNotification none or another handler's.)
C24_StoredHandleOwnerInDelay ==
    /\ pendingIdleNotification \in Handlers \cup {NoHandle}
    /\ pendingIdleNotification # NoHandle
       => /\ inv[pendingIdleNotification].pc = "delay"
          /\ ~inv[pendingIdleNotification].cancelled
    /\ \A p \in Handlers :
          ( inv[p].pc = "delay" /\ inv[p].cancelled ) => pendingIdleNotification # p

\* C24 witness: a cancelled idle handler still waits in its delay while the
\* handle stored is that of a later idle handler, also in its delay.
C24_Witness ==
    \E p, q \in Handlers :
        /\ p # q
        /\ inv[p].pc = "delay"
        /\ inv[p].cancelled
        /\ inv[q].pc = "delay"
        /\ pendingIdleNotification = q

C26_CancelledExitsWithoutSideEffects ==
    [][ \A p \in Handlers :
          ( Resumes(p) /\ inv[p].cancelled )
          => /\ last'.emit = "none"
             /\ inv'[p] = Free
             /\ \A q \in Handlers \ {p} : inv'[q] = inv[q]
             /\ lastErrorTime' = lastErrorTime
             /\ lastIdleNotificationTime' = lastIdleNotificationTime
             /\ pendingIdleNotification # p
                => pendingIdleNotification' = pendingIdleNotification ]_vars

\* C27 (as claimed): lastErrorTime changes only in the step that emits an
\* Error decision, and then to the time of that arbitration; an error that is
\* suppressed leaves it unchanged.  An idle event is skipped by the idle rule
\* exactly when the most recent Error decision was emitted less than 150 ms
\* before; and an idle event arbitrated next after a suppressed error is not
\* skipped by the idle rule.
C27_LastErrorOnlyOnEmittedError ==
    [][ /\ lastErrorTime' # lastErrorTime
           => ArbitratedError' /\ last'.emit = "error" /\ lastErrorTime' = now
        /\ ( ArbitratedError' /\ last'.emit = "error" ) => lastErrorTime' = now
        /\ ( ArbitratedError' /\ last'.emit = "none" ) => lastErrorTime' = lastErrorTime
        /\ ArbitratedIdle'
           => ( last'.log = "skipIdleAfterError"
                <=> ( /\ lastErrorEmitAt >= 0
                      /\ now - lastErrorEmitAt < RACE_CONDITION_DEBOUNCE_MS ) )
        /\ ( ArbitratedError /\ last.emit = "none" /\ ArbitratedIdle' )
           => last'.log # "skipIdleAfterError" ]_vars

\* An idle-derived decision is emitted in this step.
EmitsCompletion == last'.emit \in {"complete", "subagent"}

\* C28 (as claimed): lastIdleNotificationTime changes only in the step that
\* emits an idle-derived decision, which sets it to the time of that
\* emission; a step that arbitrates a permission, busy or error event, or in
\* which an idle event is skipped, cancelled or suppressed by the re-check,
\* leaves it unchanged.
C28_LastIdleNotificationOnlyOnEmission ==
    [][ /\ EmitsCompletion => lastIdleNotificationTime' = now
        /\ ~EmitsCompletion => lastIdleNotificationTime' = lastIdleNotificationTime ]_vars

\* C29: with timers that fire, whenever pendingIdleNotification is set it is
\* eventually none again, and every handler suspended in its delay eventually
\* leaves it.  The handle goes from set to none only in a step in which an
\* idle handler resumes (its timer elapsed) or an error is arbitrated; and the
\* step in which a handler leaves its delay has exactly one of the outcomes
\* emitted, cancelled, re-suppressed, and ends the handler unless it emitted.
C29_PendingIdleEventuallyCleared ==
    /\ [] ( pendingIdleNotification # NoHandle => <> ( pendingIdleNotification = NoHandle ) )
    /\ \A p \in Handlers : [] ( inv[p].pc = "delay" => <> ( inv[p].pc # "delay" ) )
    /\ [][ /\ ( pendingIdleNotification # NoHandle /\ pendingIdleNotification' = NoHandle )
               => \/ ArbitratedError' /\ last'.log = "cancelPendingIdle"
                  \/ \E p \in Handlers : Resumes(p)
            /\ \A p \in Handlers :
                  Resumes(p)
                  => /\ last'.step = "resumed"
                     /\ \/ /\ last'.emit \in {"complete", "subagent"}
                           /\ last'.log = "none"
                           /\ ~inv[p].cancelled
                        \/ /\ last'.emit = "none"
                           /\ last'.log = "cancelled"
                           /\ inv[p].cancelled
                           /\ inv'[p].pc = "free"
                        \/ /\ last'.emit = "none"
                           /\ last'.log = "skipIdleAfterError"
                           /\ ~inv[p].cancelled
                           /\ inv'[p].pc = "free" ]_vars

\* C29 witness: a re-suppressed idle handler has ended and the handle is none
\* again, after another idle handler was cancelled by an error.
C29_Witness ==
    /\ last.step = "resumed"
    /\ last.log = "skipIdleAfterError"
    /\ pendingIdleNotification = NoHandle
    /\ \A p \in Handlers : inv[p].pc # "delay"

\* The handlers that move to another suspension point, or end, in this step.
Moved == { p \in Handlers : inv'[p].pc # inv[p].pc }

\* C30: a handler invocation hands at most one decision to handleEvent.  The
\* step that emits a decision is the step of one handler, which has not
\* emitted before (it was receiving its event, awaiting its lookup or toast, or
\* in its delay) and is left with nothing but the join of the dispatchers
\* called for that decision, each at most once, or has ended; a handler at the
\* join emits nothing more, calls no dispatcher again, and ends from there.
C30_AtMostOneDecisionPerEvent ==
    [][ /\ last'.emit # "none"
           => /\ Cardinality(Moved) = 1
              /\ \A p \in Moved :
                    /\ inv[p].pc \in {"free", "lookup", "toast", "delay"}
                    /\ inv'[p].pc \in {"dispatch", "free"}
                    /\ inv'[p].pc = "dispatch"
                       => /\ inv'[p].eventType = last'.emit
                          /\ inv'[p].pending \subseteq {"sendNotification", "playSound"}
        /\ \A p \in Handlers :
              /\ inv[p].pc = "dispatch"
                 => /\ inv'[p].pc \in {"dispatch", "free"}
                    /\ inv'[p].pc = "dispatch"
                       => /\ inv'[p].eventType = inv[p].eventType
                          /\ inv'[p].pending \subseteq inv[p].pending
                    /\ inv'[p].pc = "free" => last'.emit = "none"
              /\ ( inv[p].pc # "dispatch" /\ inv'[p].pc = "dispatch" )
                 => last'.emit # "none" ]_vars

\* C30 witness: two invocations, one of which made a session lookup, have each
\* emitted their one decision and await its dispatchers.
C30_Witness ==
    \E p, q \in Handlers :
        /\ p # q
        /\ inv[p].pc = "dispatch"
        /\ inv[q].pc = "dispatch"
        /\ inv[p].pending = {"sendNotification", "playSound"}
        /\ last.emit = inv[q].eventType
        /\ last.title = "Sub task"

\* C31: the toast shown after a failed lookup is best-effort.  When showToast
\* rejects, the handler neither stops nor rejects: the step it takes is the
\* step it takes when showToast is fulfilled, namely the arbitration of the
\* event that triggered the lookup, with the default title and no parent.
C31_ToastFailureSwallowed ==
    [][ \A p \in Handlers :
          ToastSettled(p, "rejected")
          => /\ ToastSettled(p, "fulfilled")
             /\ Arbitrate(p, EventOf(p), DefaultTitle, NoSession)
             /\ last'.step = "arbitrated"
             /\ last'.type = inv[p].type
             /\ last'.title = DefaultTitle
             /\ inv'[p].pc # "toast" ]_vars

\* C31 witness: the toast of an idle event whose lookup failed is in flight
\* while an error is recent enough for the idle rule to matter and the handle
\* of an earlier idle is stored.
C31_Witness ==
    \E p \in Handlers :
        /\ inv[p].pc = "toast"
        /\ inv[p].type = "session.status"
        /\ inv[p].status = "idle"
        /\ lastErrorTime >= 0
        /\ pendingIdleNotification # NoHandle

\* The players spawned so far whose process has ended, closing with code 0.
Succeeded ==
    { i \in DOMAIN player.spawned :
        /\ i < Len(player.spawned) \/ player.pc # "await"
        /\ player.exits[player.spawned[i]] = "exit0" }

\* C32: playOnLinux spawns paplay, aplay, mpv, ffplay in that order, one at a
\* time.  A player is spawned only after every player before it failed (could
\* not be started, or closed with a code other than 0); the call returns right
\* after the first player that closed with code 0, so at most one of the
\* players spawned succeeded, and it returns after a failure only when that
\* failure was ffplay's, the last of the four.  The call never throws.
C32_PlayersInOrderUntilFirstSuccess ==
    /\ player.pc \in {"idle", "await", "returned"}
    /\ Len(player.spawned) <= Len(Players)
    /\ player.spawned = SubSeq(Players, 1, Len(player.spawned))
    /\ ( player.pc = "idle" ) <=> ( player.spawned = <<>> )
    /\ player.pc = "await" => player.index = Len(player.spawned)
    /\ \A i \in DOMAIN player.spawned :
          i < Len(player.spawned) => i \notin Succeeded
    /\ Cardinality(Succeeded) <= 1
    /\ player.pc = "await" => Succeeded = {}
    /\ player.pc = "returned"
       => \/ Len(player.spawned) \in Succeeded
          \/ Len(player.spawned) = Len(Players) /\ Succeeded = {}

\* C32 witness: paplay could not be started, aplay closed with a code other
\* than 0, mpv closed with code 0, and the call returned without spawning ffplay.
C32_Witness ==
    /\ player.pc = "returned"
    /\ player.spawned = <<"paplay", "aplay", "mpv">>
    /\ player.exits["paplay"] = "error"
    /\ player.exits["aplay"] = "exit1"
    /\ player.exits["mpv"] = "exit0"

\* C33: a stored handle is never stale.  Whenever pendingIdleNotification is
\* set, the handler that stored it is suspended in its delay, not cancelled,
\* with its decision still to come; and a step that suppresses an error
\* through the cancellation path finds such a handler, cancels that handler
\* and no other, clears the handle and emits nothing.
C33_NoStaleCancellationHandle ==
    [][ /\ pendingIdleNotification # NoHandle
           => /\ pendingIdleNotification \in Handlers
              /\ inv[pendingIdleNotification].pc = "delay"
              /\ ~inv[pendingIdleNotification].cancelled
              /\ inv[pendingIdleNotification].eventType \in {"complete", "subagent"}
        /\ ( last'.step = "arbitrated" /\ last'.log = "cancelPendingIdle" )
           => /\ last'.type = "session.error"
              /\ last'.emit = "none"
              /\ pendingIdleNotification # NoHandle
              /\ pendingIdleNotification' = NoHandle
              /\ inv'[pendingIdleNotification].pc = "delay"
              /\ inv'[pendingIdleNotification].cancelled
              /\ \A q \in Handlers :
                    q # pendingIdleNotification
                    => inv'[q].cancelled = inv[q].cancelled ]_vars

\* C33 witness: an error has just been suppressed through the cancellation
\* path while the grace delay of the idle it retracted was still running.
C33_Witness ==
    /\ ArbitratedError
    /\ last.log = "cancelPendingIdle"
    /\ pendingIdleNotification = NoHandle
    /\ \E p \in Handlers :
          /\ inv[p].pc = "delay"
          /\ inv[p].cancelled
          /\ now < inv[p].due

\* In this step handler p arbitrates an event that carries session id s: on
\* receiving it, or once its session lookup (and toast) has settled.
ArbitratesFor(p, s) ==
    /\ last'.step = "arbitrated"
    /\ \/ \E e \in TwoSessionEvents : e.sessionID = s /\ ReceiveEvent(p, e)
       \/ /\ inv[p].sessionID = s
          /\ SessionGetResolves(p) \/ SessionGetRejects(p) \/ ToastSettles(p)

\* C34: the arbiter does not look at session ids.  Under a host whose idle
\* events are all of session A and whose errors are all of session B, an error
\* of B arbitrated while the handle of an idle of A is stored cancels that
\* idle, clears the handle and emits nothing; and an idle of A arbitrated less
\* than 150 ms after an Error decision (of B) was emitted is skipped, arming
\* no delay and storing no handle.
C34_ArbitrationIgnoresSession ==
    [][ \A p \in Handlers :
          /\ ( ArbitratesFor(p, SessionB) /\ pendingIdleNotification # NoHandle )
             => /\ last'.type = "session.error"
                /\ last'.log = "cancelPendingIdle"
                /\ last'.emit = "none"
                /\ inv'[pendingIdleNotification].cancelled
                /\ pendingIdleNotification' = NoHandle
                /\ UNCHANGED <<lastErrorTime, lastIdleNotificationTime>>
          /\ ( /\ ArbitratesFor(p, SessionA)
               /\ lastErrorTime >= 0
               /\ now - lastErrorTime < RACE_CONDITION_DEBOUNCE_MS )
             => /\ last'.type = "session.status"
                /\ last'.log = "skipIdleAfterError"
                /\ last'.emit = "none"
                /\ inv'[p].pc = "free"
                /\ UNCHANGED arbiter ]_vars

\* C34 witness: the lookup of an error of session B is in flight while an idle
\* of session A waits in its delay with its handle stored.
C34_Witness ==
    \E p, q \in Handlers :
        /\ inv[p].pc = "lookup"
        /\ inv[p].sessionID = SessionB
        /\ inv[p].type = "session.error"
        /\ inv[q].pc = "delay"
        /\ pendingIdleNotification = q
        /\ now < inv[q].due

\* C35 (as claimed): a delayed idle completion of a session is notified only if
\* no busy, error or newer idle event of that session was handled between its
\* scheduling and its final sequence check.
C35_SupersededIdleNeverNotifies ==
    ( last.step = "processed" /\ last.emit \in {"complete", "subagent_complete"} )
    => ~last.superseded

\* C36 (as claimed): after an error of session s, the next idle of s whose
\* timer fires while the error mark is still recorded is suppressed, whatever
\* time has passed since the error, and the mark is consumed; an idle of s
\* whose timer fires with no mark recorded goes on to the child-session
\* lookup, and, no further event of s being handled, notifies a completion
\* when the lookup settles.
C36_ErrorSuppressesNextIdleOnce ==
    [][ \A sessionID \in SessionIDs :
          /\ ( TimerFires(sessionID) /\ Has(sessionErrorSuppressionAt, sessionID) )
             => /\ last'.log = "suppressed"
                /\ last'.emit = "none"
                /\ processing' = processing
                /\ ~Has(sessionErrorSuppressionAt', sessionID)
          /\ ( TimerFires(sessionID) /\ ~Has(sessionErrorSuppressionAt, sessionID) )
             => /\ last'.log = "none"
                /\ \E call \in processing' : call.sessionID = sessionID /\ ~call.superseded
          /\ \A call \in processing :
                ( /\ call.sessionID = sessionID
                  /\ ~call.superseded
                  /\ \E isChild \in BOOLEAN : IsChildSettles(call, isChild) )
                => last'.emit \in {"complete", "subagent_complete"} ]_vars

\* C37 (as claimed): a busy event of session s clears the error mark of s; an
\* idle of s whose timer fires after a busy event of s, with no error mark
\* recorded since, is not suppressed and goes on to the child-session lookup;
\* and, no further event of s being handled, that idle notifies a completion
\* when the lookup settles.
C37_BusyClearsErrorSuppression ==
    [][ \A sessionID \in SessionIDs :
          /\ ReceiveSessionBusy(sessionID)
             => /\ ~Has(sessionErrorSuppressionAt', sessionID)
                /\ sessionLastBusyAt'[sessionID] = now
          /\ ( /\ TimerFires(sessionID)
               /\ Has(sessionLastBusyAt, sessionID)
               /\ ~Has(sessionErrorSuppressionAt, sessionID) )
             => /\ last'.log # "suppressed"
                /\ [sessionID |-> sessionID,
                    sequence |-> pendingIdleTimers[sessionID].sequence,
                    superseded |-> FALSE] \in processing'
          /\ \A call \in processing :
                ( /\ call.sessionID = sessionID
                  /\ ~call.superseded
                  /\ Has(sessionLastBusyAt, sessionID)
                  /\ IsChildSettles(call, FALSE) )
                => last'.emit = "complete" ]_vars

\* `map.get(key)`: the value of the entry, if there is one.
Get(map, key) == IF Has(map, key) THEN <<map[key]>> ELSE <<>>

\* What the scheduler holds for one session.
OfSession(sessionID) ==
    [timer |-> Get(pendingIdleTimers, sessionID),
     sequence |-> Get(sessionIdleSequence, sessionID),
     errorAt |-> Get(sessionErrorSuppressionAt, sessionID),
     busyAt |-> Get(sessionLastBusyAt, sessionID),
     calls |-> { call \in processing : call.sessionID = sessionID }]

\* C38: sessions are isolated.  A step that handles an idle, busy or error
\* event of a session, fires its timer or finishes its processing leaves what
\* the scheduler holds for every other session as it was: the pending timer,
\* the sequence number, the error mark, the last busy time, and the calls in
\* flight, none of which it supersedes.
C38_SessionsIsolated ==
    [][ \A sessionID \in SessionIDs :
          ( \/ ReceiveSessionIdle(sessionID)
            \/ ReceiveSessionBusy(sessionID)
            \/ ReceiveSessionError(sessionID)
            \/ TimerFires(sessionID)
            \/ \E call \in processing :
                  call.sessionID = sessionID /\ \E isChild \in BOOLEAN : IsChildSettles(call, isChild) )
          => \A other \in SessionIDs \ {sessionID} :
                OfSession(other)' = OfSession(other) ]_vars

\* C38 witness: a busy event of session A has just been handled while session
\* B, with an error mark and a last busy time recorded, has an idle scheduled.
C38_Witness ==
    /\ last.step = "session.busy"
    /\ last.sessionID = SessionA
    /\ Has(pendingIdleTimers, SessionB)
    /\ Has(sessionErrorSuppressionAt, SessionB)
    /\ Has(sessionLastBusyAt, SessionB)
    /\ ~Has(pendingIdleTimers, SessionA)

\* C39: a call of sendNotification with message text m delivers a notification
\* if and only if no notification with text m was delivered less than 1000 ms
\* before the call; a dropped call leaves the recorded times as they were, so
\* that the window is counted from the last delivery, and two deliveries of
\* the same text are never less than 1000 ms apart.
C39_DebouncedPerMessage ==
    [][ \A message \in Messages :
          SendNotification(message)
          => /\ last'.step \in {"delivered", "dropped"}
             /\ ( last'.step = "delivered" )
                <=> ~ ( /\ last.deliveredAt[message] # NEVER
                        /\ now - last.deliveredAt[message] < DEBOUNCE_MS )
             /\ last'.step = "dropped"
                => /\ lastNotificationTime' = lastNotificationTime
                   /\ last'.deliveredAt = last.deliveredAt
             /\ last'.step = "delivered"
                => /\ lastNotificationTime'[message] = now
                   /\ last'.deliveredAt[message] = now
                   /\ \A other \in Messages \ {message} :
                         last'.deliveredAt[other] = last.deliveredAt[other] ]_vars

\* C39 witness: a second call with the same text, made 500 ms after the one
\* that was delivered, has just been dropped.
C39_Witness ==
    /\ last.step = "dropped"
    /\ last.message = "OpenCode needs permission"
    /\ last.deliveredAt["OpenCode needs permission"] # NEVER
    /\ now - last.deliveredAt["OpenCode needs permission"] = NotifyTickMs
    /\ last.deliveredAt["OpenCode has finished"] = now

====
